---- MODULE Spec2Model ----
(***************************************************************************)
(* A model of matplotlib's mathtext (src/lib/matplotlib/mathtext.py): the   *)
(* TeX box model (Node, Char, List, Glue, Kern, hpack, vpack, shrink), the  *)
(* Ship traversal, the font layers' glyph lookup, the Parser's parse        *)
(* actions and MathTextParser's result cache.                               *)
(*                                                                         *)
(* Lengths are integers counted in 1/Unit of a device unit, so that the    *)
(* factor 0.7 of shrink is exact on the glyph table for three levels and   *)
(* round() has something to round.  numpy's inf is the sentinel Inf.       *)
(***************************************************************************)
EXTENDS Integers, Sequences, FiniteSets, TLC

VARIABLES wb, wpacked, wlast, wout,   \* the box-model workbench
          wsize,                      \* a node through its size changes
          wauto,                      \* the last automatically sized glyph
          fnt,                        \* the last glyph lookup
          prs,                        \* the Parser object and its last call
          mtp                         \* the MathTextParser and its last call

vars == <<wb, wpacked, wlast, wout, wsize, wauto, fnt, prs, mtp>>

----------------------------------------------------------------------------
(* Numbers *)

\* Model units per device unit.
Unit == 10 * 10 * 10
\* numpy.inf: larger than every length the model builds.
Inf == Unit * Unit * 100
IsInf(v) == v >= Inf

\* An assignment to a local variable.  value is computed where the
\* assignment stands, once, and Body reads it by name; the test, which is
\* always true, makes TLC compute value before it enters Body.
With(value, Body(_)) == IF value = value THEN Body(value) ELSE Body(value)

Max(a, b) == IF a >= b THEN a ELSE b
Min(a, b) == IF a <= b THEN a ELSE b
Abs(a) == IF a >= 0 THEN a ELSE -a

\* SHRINK_FACTOR = 0.7 as the fraction ShrinkNum / ShrinkDen; GROW_FACTOR is
\* its reciprocal.
ShrinkNum == 7
ShrinkDen == 10
NUM_SIZE_LEVELS == 4

\* v * num / den, rounded toward zero (exact on the glyph table's lengths).
MulFrac(v, num, den) ==
    IF IsInf(v) THEN v
    ELSE IF v * num >= 0 THEN (v * num) \div den ELSE -((-(v * num)) \div den)

TimesShrink(v) == MulFrac(v, ShrinkNum, ShrinkDen)
\* the multiplication by GROW_FACTOR as it would be if the factor were 1
TimesGrowByOne(v) == v
TimesGrow(v) == MulFrac(v, ShrinkDen, ShrinkNum)

\* A quotient n / d kept exact (List.glue_set = x / totals[o]).
Ratio(n, d) == [n |-> n, d |-> d]
RatioShrink(r) == Ratio(r.n * ShrinkNum, r.d * ShrinkDen)
\* r / 0.7, cancelling the factors an earlier RatioShrink put in
RatioGrow(r) ==
    IF r.n % ShrinkNum = 0 /\ r.d % ShrinkDen = 0
    THEN Ratio(r.n \div ShrinkNum, r.d \div ShrinkDen)
    ELSE Ratio(r.n * ShrinkDen, r.d * ShrinkNum)

\* Python 2 round(): to the nearest whole device unit, halves away from zero.
\* RoundQuot(a, b) is round(a / b) for a length a and a nonzero count b.
RoundQuot(a, b) ==
    LET num == IF b > 0 THEN a ELSE -a
        den == Abs(b)
        mag == ((2 * Abs(num) + den * Unit) \div (2 * den * Unit)) * Unit
    IN  IF num >= 0 THEN mag ELSE -mag

\* Ship.clamp: the bounds are +-10^9 device units.
ClampMax == 1000000000
clamp_quot(a, b) ==
    \* clamp(a / b) as a quotient again; a / b is compared in whole device units
    LET num == IF b > 0 THEN a ELSE -a
        den == Abs(b)
    IN  IF -((-num) \div (den * Unit)) > ClampMax THEN Ratio(ClampMax * Unit, 1)
        ELSE IF num \div (den * Unit) < -ClampMax THEN Ratio(-ClampMax * Unit, 1)
        ELSE Ratio(num, den)

----------------------------------------------------------------------------
(* Glyph metrics: what Fonts.get_metrics returns.  The table gives each    *)
(* glyph at the font size BaseFontSize and BaseDpi dots per inch; the      *)
(* metrics at another size or resolution scale linearly with it.           *)

BaseFontSize == 10 * Unit
BaseDpi == 72

Bunch(adv, w, h, xmin, xmax, ymin, ymax, slanted) ==
    [advance |-> adv, width |-> w, height |-> h, xmin |-> xmin, xmax |-> xmax,
     ymin |-> ymin, ymax |-> ymax, iceberg |-> ymax, slanted |-> slanted]

\* the k-th larger cut of a delimiter, radical or wide accent
SizedGlyph(k) ==
    Bunch((4 + 2 * k) * Unit, (3 + 2 * k) * Unit, (6 + 6 * k) * Unit, 0,
          (3 + 2 * k) * Unit, -(2 + 2 * k) * Unit, (4 + 4 * k) * Unit, FALSE)

GlyphBase(font, c) ==
    With((font = "it"), LAMBDA sl :
    CASE font \in {"1", "2", "3", "4", "5"} ->
             SizedGlyph(CASE font = "1" -> 1 [] font = "2" -> 2
                          [] font = "3" -> 3 [] font = "4" -> 4
                          [] font = "5" -> 5)
      [] c \in {"\\xa1", "\\xa2", "\\x70", "\\x62"} -> SizedGlyph(1)
      [] c \in {"\\xb3", "\\xb4", "\\x71", "\\x63"} -> SizedGlyph(2)
      [] c \in {"\\xb5", "\\xb6", "\\x72", "\\x64"} -> SizedGlyph(3)
      [] c \in {"\\xc3", "\\x21", "\\x73"} -> SizedGlyph(4)
      [] c = "\\int" -> Bunch(5 * Unit, 4 * Unit, 10 * Unit, 0, 4 * Unit, -3 * Unit, 7 * Unit, sl)
      [] c = "x" -> Bunch(6 * Unit, 5 * Unit, 4 * Unit, 0, 5 * Unit, 0, 4 * Unit, sl)
      [] c = "y" -> Bunch(5 * Unit, 5 * Unit, 6 * Unit, 0, 5 * Unit, -2 * Unit, 4 * Unit, sl)
      [] c = "f" -> Bunch(3 * Unit, 4 * Unit, 7 * Unit, 0, 4 * Unit, 0, 7 * Unit, sl)
      [] c = "m" -> Bunch(10 * Unit, 9 * Unit, 4 * Unit, 0, 9 * Unit, 0, 4 * Unit, sl)
      [] c = "=" -> Bunch(7 * Unit, 6 * Unit, 2 * Unit, Unit, 7 * Unit, Unit, 3 * Unit, FALSE)
      [] c = " " -> Bunch(3 * Unit, 0, 0, 0, 0, 0, 0, FALSE)
      [] c = "(" -> Bunch(4 * Unit, 3 * Unit, 10 * Unit, 0, 3 * Unit, -2 * Unit, 8 * Unit, FALSE)
      [] c = "~" -> Bunch(0, 4 * Unit, 2 * Unit, -5 * Unit, -1 * Unit, 5 * Unit, 7 * Unit, FALSE)
      [] OTHER   -> Bunch(5 * Unit, 4 * Unit, 4 * Unit, 0, 4 * Unit, 0, 4 * Unit, sl))

ScaleMetric(v, fontsize, dpi) ==
    MulFrac(MulFrac(v, fontsize, BaseFontSize), dpi, BaseDpi)

get_metrics(font, c, fontsize, dpi) ==
    With(GlyphBase(font, c), LAMBDA g :
    [advance |-> ScaleMetric(g.advance, fontsize, dpi),
     width   |-> ScaleMetric(g.width, fontsize, dpi),
     height  |-> ScaleMetric(g.height, fontsize, dpi),
     xmin    |-> ScaleMetric(g.xmin, fontsize, dpi),
     xmax    |-> ScaleMetric(g.xmax, fontsize, dpi),
     ymin    |-> ScaleMetric(g.ymin, fontsize, dpi),
     ymax    |-> ScaleMetric(g.ymax, fontsize, dpi),
     iceberg |-> ScaleMetric(g.iceberg, fontsize, dpi),
     slanted |-> g.slanted])

NoMetrics == Bunch(0, 0, 0, 0, 0, 0, 0, FALSE)

\* Fonts.get_kern: zero unless same font and size; the table has one pair.
get_kern(font1, c1, fontsize1, font2, c2, fontsize2, dpi) ==
    IF font1 = font2 /\ fontsize1 = fontsize2 /\ c1 = "f" /\ c2 = "y"
    THEN ScaleMetric(-1 * Unit, fontsize1, dpi)
    ELSE 0

\* font.underline_thickness / 64.0 at the size the font is set to: the table
\* gives it at BaseFontSize (bold is thicker; 'tt' is below one unit).
UnderlineBase(font) ==
    CASE font = "bf" -> 2 * Unit
      [] font = "tt" -> Unit \div 2
      [] OTHER       -> Unit

\* TruetypeFonts.get_xheight for a font without a 'pclt' table: the iceberg
\* of the letter x
get_xheight(font, fontsize, dpi) == get_metrics(font, "x", fontsize, dpi).iceberg

\* TruetypeFonts.get_underline_thickness: max(1.0, thickness/64/fontsize*10)
get_underline_thickness(font, fontsize, dpi) ==
    Max(Unit, MulFrac(MulFrac(UnderlineBase(font), fontsize, BaseFontSize),
                      BaseFontSize, fontsize))

\* StandardPsFonts.get_underline_thickness:
\* cached_font.get_underline_thickness() * 0.001 * fontsize, where the AFM
\* file gives UnderlineThickness in thousandths of the font size
Ps_get_underline_thickness(underline_thickness, fontsize, dpi) ==
    MulFrac(underline_thickness * fontsize, 1, 1000)

\* font_output.get_underline_thickness(font, fontsize, dpi) of the family
Fonts_get_underline_thickness(family, font, underline_thickness, fontsize, dpi) ==
    IF family = "ps"
    THEN Ps_get_underline_thickness(underline_thickness, fontsize, dpi)
    ELSE get_underline_thickness(font, fontsize, dpi)

----------------------------------------------------------------------------
(* Glyph lookup: Fonts.get_metrics -> _get_info -> _get_glyph in the four   *)
(* font families.  A symbol is what the lookup tables of _mathtext_data and *)
(* unicodedata say of it; env is what the font files hold: whether the      *)
(* selected font has the glyph (in_charmap), whether the Computer Modern    *)
(* font has it (in_cm_charmap), and whether the 'rm' font has the currency  *)
(* sign that stands in for a missing glyph (has_dummy).                     *)

Symbol(name, single, upper_az, letter, greek_capital, in_bakoma, bakoma_base, in_cmex, in_tex2uni, in_standard, in_slanted) ==
    [name |-> name, single |-> single, upper_az |-> upper_az,
     letter |-> letter, greek_capital |-> greek_capital,
     in_bakoma |-> in_bakoma, bakoma_base |-> bakoma_base,
     in_cmex |-> in_cmex, in_tex2uni |-> in_tex2uni,
     in_standard |-> in_standard, in_slanted |-> in_slanted]

\* what a lookup returns or raises: the exception, the warnings emitted, the
\* font and glyph number chosen, the slanted flag, whether the glyph is a
\* substitute, and whether the symbol's own glyph was found
GlyphRes(raised, warnings, font, num, slanted, substitute, found) ==
    [raised |-> raised, warnings |-> warnings, font |-> font, num |-> num,
     slanted |-> slanted, substitute |-> substitute, found |-> found]

\* BakomaFonts._fontmap's keys (the TeX names; the file names map to themselves)
BakomaFontmap == {"cal", "rm", "tt", "it", "bf", "sf", "ex"}

\* BakomaFonts._get_glyph; warned counts the warnings emitted before the call
Bakoma_get_glyph(fontname, sym, env, warned) ==
    IF fontname \in BakomaFontmap /\ sym.in_bakoma
    THEN GlyphRes("none", warned, sym.bakoma_base, sym.name,
                  sym.bakoma_base = "cmmi10" \/ sym.in_slanted, FALSE, TRUE)
    ELSE IF sym.single /\ env.in_cm_charmap
    THEN GlyphRes("none", warned, fontname, sym.name, fontname = "it",
                  FALSE, TRUE)
    ELSE GlyphRes("none", warned + 1, "it", "0x3F", FALSE, TRUE, FALSE)

\* UnicodeFonts._get_glyph, with the class attributes use_cmex and cm_fallback
Unicode_get_glyph(fontname, sym, env, use_cmex, cm_fallback) ==
    LET in_cmex  == use_cmex /\ sym.in_cmex
        has_uni  == in_cmex \/ sym.single \/ sym.in_tex2uni
        font1    == IF in_cmex THEN "ex" ELSE fontname
        w1       == IF has_uni THEN 0 ELSE 1
        new_font == IF font1 = "it" /\ (~sym.letter \/ sym.greek_capital)
                    THEN "rm" ELSE font1
        has_glyph == has_uni /\ env.in_charmap
        w2       == IF has_uni /\ ~env.in_charmap THEN w1 + 1 ELSE w1
    IN  IF has_glyph
        THEN GlyphRes("none", w2, new_font, sym.name,
                      new_font = "it" \/ sym.in_slanted, FALSE, TRUE)
        ELSE IF cm_fallback
        THEN [Bakoma_get_glyph(font1, sym, env, w2 + 1)
                 EXCEPT !.substitute = TRUE, !.found = FALSE]
        ELSE IF env.has_dummy
        THEN GlyphRes("none", w2 + 1, "rm", "0xA4", FALSE, TRUE, FALSE)
        ELSE GlyphRes("KeyError", w2 + 1, "rm", "0xA4", FALSE, FALSE, FALSE)

\* the private-use character StixFonts puts in the place of a capital letter
CalLetter(sym) ==
    [sym EXCEPT !.name = "cal-" \o sym.name, !.upper_az = FALSE,
                !.letter = FALSE, !.in_cmex = FALSE, !.in_tex2uni = FALSE]

\* StixFonts._get_glyph (use_cmex = False, cm_fallback = False)
Stix_get_glyph_any_cal(fontname, sym, env) ==
    Unicode_get_glyph(fontname, sym, env, FALSE, FALSE)

Stix_get_glyph(fontname, sym, env) ==
    IF fontname = "cal"
    THEN IF ~sym.upper_az
         THEN GlyphRes("ValueError", 0, fontname, sym.name, FALSE, FALSE, FALSE)
         ELSE Unicode_get_glyph("nonuniit", CalLetter(sym), env, FALSE, FALSE)
    ELSE Unicode_get_glyph(fontname, sym, env, FALSE, FALSE)

\* StandardPsFonts._get_info
Ps_get_info(fontname, sym, env) ==
    LET font1 == IF fontname = "it" /\ (~sym.single \/ ~sym.letter)
                 THEN "rm" ELSE fontname
        found == sym.in_standard \/ sym.single
        font2 == IF sym.in_standard THEN "standard" ELSE font1
        w1    == IF found THEN 0 ELSE 1
        w2    == IF found /\ ~env.in_charmap THEN w1 + 1 ELSE w1
    IN  IF found /\ env.in_charmap
        THEN GlyphRes("none", w2, font2, sym.name, font2 = "it", FALSE, TRUE)
        ELSE GlyphRes("none", w2, font2, "?", font2 = "it", TRUE, FALSE)

\* The font layers MathTextParser.parse chooses among: 'cm', 'stix', 'custom'
\* (with mathtext.fallback_to_cm on or off) and the AFM fonts of ps.useafm
Families == {"bakoma", "stix", "unicode", "unicode_cm", "ps"}

\* font_output._get_glyph / _get_info of the family
get_glyph(family, fontname, sym, env) ==
    CASE family = "bakoma"     -> Bakoma_get_glyph(fontname, sym, env, 0)
      [] family = "stix"       -> Stix_get_glyph(fontname, sym, env)
      [] family = "unicode"    -> Unicode_get_glyph(fontname, sym, env, TRUE, FALSE)
      [] family = "unicode_cm" -> Unicode_get_glyph(fontname, sym, env, TRUE, TRUE)
      [] family = "ps"         -> Ps_get_info(fontname, sym, env)

\* Parser.symbol's try: Char(c, state), a ValueError becoming the parse error
\* 'Unknown symbol'; every other exception goes through
symbol_char(family, fontname, sym, env) ==
    With(get_glyph(family, fontname, sym, env), LAMBDA g :
    [glyph |-> g,
     err   |-> IF g.raised = "ValueError" THEN "ParseFatalException"
               ELSE g.raised,
     built |-> g.raised = "none"])

----------------------------------------------------------------------------
(* Nodes.  Every node is a record of one shape; a class reads the fields   *)
(* it has.  kind is the Python class (Hbox and Vbox are plain Boxes).      *)

GlueSpec(width, stretch, stretch_order, shrink, shrink_order) ==
    [width |-> width, stretch |-> stretch, stretch_order |-> stretch_order,
     shrink |-> shrink, shrink_order |-> shrink_order]

GlueSpecFactory(glue_type) ==
    CASE glue_type = "fil"       -> GlueSpec(0, 1, 1, 0, 0)
      [] glue_type = "fill"      -> GlueSpec(0, 1, 2, 0, 0)
      [] glue_type = "filll"     -> GlueSpec(0, 1, 3, 0, 0)
      [] glue_type = "neg_fil"   -> GlueSpec(0, 0, 0, 1, 1)
      [] glue_type = "neg_fill"  -> GlueSpec(0, 0, 0, 1, 2)
      [] glue_type = "neg_filll" -> GlueSpec(0, 0, 0, 1, 3)
      [] glue_type = "empty"     -> GlueSpec(0, 0, 0, 0, 0)
      [] glue_type = "ss"        -> GlueSpec(0, 1, 1, -1, 1)

NodeInit ==
    [kind |-> "Node", size |-> 0, width |-> 0, height |-> 0, depth |-> 0,
     shift_amount |-> 0, children |-> <<>>,
     glue_set |-> Ratio(0, 1), glue_sign |-> 0, glue_order |-> 0,
     c |-> "", font |-> "", fontsize |-> 0, dpi |-> 0, metrics |-> NoMetrics,
     glue_spec |-> GlueSpecFactory("empty"), function_name |-> ""]

IsChar(p) == p.kind \in {"Char", "Accent"}
IsList(p) == p.kind \in {"Hlist", "Vlist"}
IsBox(p)  == p.kind \in {"Box", "Rule", "Hlist", "Vlist"}
IsGlue(p) == p.kind = "Glue"
IsKern(p) == p.kind = "Kern"

Box(width, height, depth) ==
    [NodeInit EXCEPT !.kind = "Box", !.width = width, !.height = height,
                     !.depth = depth]
Vbox(height, depth) == Box(0, height, depth)
\* Hbox as it would be if it were as high as it is wide
Hbox_high(width) == Box(width, width, 0)
Hbox(width) == Box(width, 0, 0)

Rule(width, height, depth) ==
    [NodeInit EXCEPT !.kind = "Rule", !.width = width, !.height = height,
                     !.depth = depth]
Hrule(font, fontsize, dpi) ==
    With(get_underline_thickness(font, fontsize, dpi), LAMBDA thickness :
        Rule(Inf, thickness \div 2, thickness \div 2))
Vrule(font, fontsize, dpi) ==
    Rule(get_underline_thickness(font, fontsize, dpi), Inf, Inf)

Glue(glue_type) ==
    [NodeInit EXCEPT !.kind = "Glue", !.glue_spec = GlueSpecFactory(glue_type)]
Kern(width) == [NodeInit EXCEPT !.kind = "Kern", !.width = width]

\* Char._update_metrics
Char_update_metrics(p) ==
    With(get_metrics(p.font, p.c, p.fontsize, p.dpi), LAMBDA metrics :
    [p EXCEPT !.metrics = metrics,
              !.width = IF p.c = " " THEN metrics.advance ELSE metrics.width,
              !.height = metrics.iceberg,
              !.depth = -(metrics.iceberg - metrics.height)])

\* Accent._update_metrics
Accent_update_metrics(p) ==
    With(get_metrics(p.font, p.c, p.fontsize, p.dpi), LAMBDA metrics :
    [p EXCEPT !.metrics = metrics,
              !.width = metrics.xmax - metrics.xmin,
              !.height = metrics.ymax - metrics.ymin,
              !.depth = 0])

Char(c, font, fontsize, dpi) ==
    Char_update_metrics(
        [NodeInit EXCEPT !.kind = "Char", !.c = c, !.font = font,
                         !.fontsize = fontsize, !.dpi = dpi])

Accent(c, font, fontsize, dpi) ==
    Accent_update_metrics(
        [NodeInit EXCEPT !.kind = "Accent", !.c = c, !.font = font,
                         !.fontsize = fontsize, !.dpi = dpi])

\* Node.get_kerning / Char.get_kerning; next is a node, or NodeInit for None
get_kerning(p, next) ==
    IF IsChar(p)
    THEN (p.metrics.advance - p.width)
         + (IF IsChar(next)
            THEN get_kern(p.font, p.c, p.fontsize, next.font, next.c,
                          next.fontsize, p.dpi)
            ELSE 0)
    ELSE 0

----------------------------------------------------------------------------
(* Packing *)

Zero4 == <<0, 0, 0, 0>>
\* totals[order] += amount, for order 0..3 (a tuple indexed from 1)
AddAt(totals, order, amount) ==
    [totals EXCEPT ![order + 1] = totals[order + 1] + amount]

\* List._determine_order: the highest order 3..1 whose total is not zero
determine_order(totals) ==
    IF totals[4] # 0 THEN 3
    ELSE IF totals[3] # 0 THEN 2
    ELSE IF totals[2] # 0 THEN 1
    ELSE 0

\* List._set_glue (the else branch assigns glue_ratio, a field nothing reads,
\* so glue_set keeps its old value there)
set_glue(self, x, sign, totals) ==
    With(determine_order(totals), LAMBDA o :
    IF totals[o + 1] # 0
    THEN [self EXCEPT !.glue_order = o, !.glue_sign = sign,
                      !.glue_set = Ratio(x, totals[o + 1])]
    ELSE [self EXCEPT !.glue_order = o, !.glue_sign = 0])

\* Hlist.kern: a Kern after each element whose get_kerning is not zero
RECURSIVE kern_from(_, _)
kern_from(children, i) ==
    IF i > Len(children) THEN <<>>
    ELSE LET elem == children[i]
             next == IF i < Len(children) THEN children[i + 1] ELSE NodeInit IN
         With(get_kerning(elem, next), LAMBDA kerning_distance :
             (IF kerning_distance # 0
              THEN <<elem, Kern(kerning_distance)>>
              ELSE <<elem>>) \o kern_from(children, i + 1))

kern(self) == [self EXCEPT !.children = kern_from(self.children, 1)]

\* The loop of hpack over the children: a = [h, d, x, total_stretch, total_shrink]
hpack_child(a, p) ==
    IF IsChar(p)
    THEN [a EXCEPT !.x = a.x + p.width, !.h = Max(a.h, p.height),
                   !.d = Max(a.d, p.depth)]
    ELSE IF IsBox(p)
    THEN IF ~IsInf(p.height) /\ ~IsInf(p.depth)
         THEN LET s == p.shift_amount IN
              [a EXCEPT !.x = a.x + p.width, !.h = Max(a.h, p.height - s),
                        !.d = Max(a.d, p.depth + s)]
         ELSE [a EXCEPT !.x = a.x + p.width]
    ELSE IF IsGlue(p)
    THEN [a EXCEPT !.x = a.x + p.glue_spec.width,
                   !.total_stretch = AddAt(a.total_stretch,
                       p.glue_spec.stretch_order, p.glue_spec.stretch),
                   !.total_shrink = AddAt(a.total_shrink,
                       p.glue_spec.shrink_order, p.glue_spec.shrink)]
    ELSE IF IsKern(p)
    THEN [a EXCEPT !.x = a.x + p.width]
    ELSE a

RECURSIVE hpack_loop(_, _, _)
hpack_loop(children, i, a) ==
    IF i > Len(children) THEN a
    ELSE hpack_loop(children, i + 1, hpack_child(a, children[i]))

\* the start as it would be if height and depth began below the baseline
PackStartBelow == [h |-> -Unit, d |-> -Unit, x |-> 0,
                   total_stretch |-> Zero4, total_shrink |-> Zero4]

\* hpack's locals before the loop: h = 0., d = 0., x = 0., and the totals
PackStart == [h |-> 0, d |-> 0, x |-> 0,
              total_stretch |-> Zero4, total_shrink |-> Zero4]

\* hpack_width as it would be if the mode were not looked at
hpack_width_additional(w, m, x) == w + x

\* The width hpack gives the list: w itself in mode 'exactly', the natural
\* width plus w otherwise
hpack_width(w, m, x) == IF m = "additional" THEN w + x ELSE w

\* Hlist.hpack(w, m)
hpack(self, w, m) ==
    With(hpack_loop(self.children, 1, PackStart), LAMBDA a :
    With(hpack_width(w, m, a.x), LAMBDA w2 :
    LET x  == w2 - a.x
        s  == [self EXCEPT !.height = a.h, !.depth = a.d, !.width = w2] IN
        IF x = 0 THEN [s EXCEPT !.glue_sign = 0, !.glue_order = 0]
        ELSE IF x > 0 THEN set_glue(s, x, 1, a.total_stretch)
        ELSE set_glue(s, x, -1, a.total_shrink)))

\* List.__init__
List(kind, elements) ==
    [NodeInit EXCEPT !.kind = kind, !.children = elements]

\* Hlist.__init__(elements, do_kern): kern, then hpack() to the natural width
Hlist(elements, do_kern) ==
    With(List("Hlist", elements), LAMBDA l :
        hpack(IF do_kern THEN kern(l) ELSE l, 0, "additional"))

\* HCentered.__init__
HCentered(elements) == Hlist(<<Glue("ss")>> \o elements \o <<Glue("ss")>>, FALSE)

\* vpack's loop as it would be if Char were a Box
vpack_child_char_as_box(a, p) ==
    IF IsBox(p) \/ IsChar(p)
    THEN [a EXCEPT !.x = a.x + a.d + p.height, !.d = p.depth,
                   !.w = IF ~IsInf(p.width)
                         THEN Max(a.w, p.width + p.shift_amount) ELSE a.w]
    ELSE IF IsGlue(p)
    THEN [a EXCEPT !.x = a.x + a.d + p.glue_spec.width, !.d = 0]
    ELSE IF IsKern(p)
    THEN [a EXCEPT !.x = a.x + a.d + p.width, !.d = 0]
    ELSE a

\* The loop of vpack over the children: a = [w, d, x, totals, err].  A Char
\* is a Node but no Box, so it falls through to the last test, which raises.
vpack_child(a, p) ==
    IF a.err # "none" THEN a
    ELSE IF IsBox(p)
    THEN [a EXCEPT !.x = a.x + a.d + p.height, !.d = p.depth,
                   !.w = IF ~IsInf(p.width)
                         THEN Max(a.w, p.width + p.shift_amount) ELSE a.w]
    ELSE IF IsGlue(p)
    THEN [a EXCEPT !.x = a.x + a.d + p.glue_spec.width, !.d = 0,
                   !.total_stretch = AddAt(a.total_stretch,
                       p.glue_spec.stretch_order, p.glue_spec.stretch),
                   !.total_shrink = AddAt(a.total_shrink,
                       p.glue_spec.shrink_order, p.glue_spec.shrink)]
    ELSE IF IsKern(p)
    THEN [a EXCEPT !.x = a.x + a.d + p.width, !.d = 0]
    ELSE IF IsChar(p)
    THEN [a EXCEPT !.err = "RuntimeError"]
    ELSE a

RECURSIVE vpack_loop(_, _, _)
vpack_loop(children, i, a) ==
    IF i > Len(children) THEN a
    ELSE vpack_loop(children, i + 1, vpack_child(a, children[i]))

VpackStart == [w |-> 0, d |-> 0, x |-> 0, total_stretch |-> Zero4,
               total_shrink |-> Zero4, err |-> "none"]

\* vpack as it would be if every mode were 'additional'
vpack_additional(self, h, m, l) ==
    With(vpack_loop(self.children, 1, VpackStart), LAMBDA a :
    LET x1 == IF a.d > l THEN a.x + (a.d - l) ELSE a.x
        dp == IF a.d > l THEN l ELSE a.d
        h2 == h + x1
        x  == h2 - x1
        s  == [self EXCEPT !.width = a.w, !.depth = dp, !.height = h2] IN
        IF a.err # "none" THEN [err |-> a.err, box |-> self]
        ELSE [err |-> "none",
              box |-> IF x = 0 THEN [s EXCEPT !.glue_sign = 0, !.glue_order = 0]
                      ELSE IF x > 0 THEN set_glue(s, x, 1, a.total_stretch)
                      ELSE set_glue(s, x, -1, a.total_shrink)])
\* Vlist.vpack(h, m, l): [err, box].  m is the mode as passed; l the maximum
\* depth, Inf when it is left out.
vpack(self, h, m, l) ==
    With(vpack_loop(self.children, 1, VpackStart), LAMBDA a :
    LET x1 == IF a.d > l THEN a.x + (a.d - l) ELSE a.x
        dp == IF a.d > l THEN l ELSE a.d
        h2 == IF m = "additional" THEN h + x1 ELSE h
        x  == h2 - x1
        s  == [self EXCEPT !.width = a.w, !.depth = dp, !.height = h2] IN
        IF a.err # "none" THEN [err |-> a.err, box |-> self]
        ELSE [err |-> "none",
              box |-> IF x = 0 THEN [s EXCEPT !.glue_sign = 0, !.glue_order = 0]
                      ELSE IF x > 0 THEN set_glue(s, x, 1, a.total_stretch)
                      ELSE set_glue(s, x, -1, a.total_shrink)])

\* Vlist.__init__(elements): vpack() to the natural height; [err, box]
Vlist(elements) == vpack(List("Vlist", elements), 0, "additional", Inf)

----------------------------------------------------------------------------
(* shrink *)

\* the test as it would be if NUM_SIZE_LEVELS counted the shrinks
shrink_scales_through(new_size) == new_size <= NUM_SIZE_LEVELS

\* Node.shrink .. Kern.shrink: the test that guards the multiplications, made
\* after the size level was incremented
shrink_scales(new_size) == new_size < NUM_SIZE_LEVELS

RECURSIVE shrink(_)
shrink_children(children) == [i \in 1..Len(children) |-> shrink(children[i])]

shrink(p) ==
    LET size == p.size + 1
        n    == [p EXCEPT !.size = size]
    IN  IF p.kind = "Char"
        THEN IF shrink_scales(size)
             THEN [n EXCEPT !.fontsize = TimesShrink(p.fontsize),
                            !.width = TimesShrink(p.width),
                            !.height = TimesShrink(p.height),
                            !.depth = TimesShrink(p.depth)]
             ELSE n
        ELSE IF p.kind = "Accent"
        THEN Accent_update_metrics(
                 IF shrink_scales(size)
                 THEN [n EXCEPT !.fontsize = TimesShrink(p.fontsize)]
                 ELSE n)
        ELSE IF IsList(p)
        THEN With([n EXCEPT !.children = shrink_children(p.children)], LAMBDA c :
             IF shrink_scales(size)
             THEN [c EXCEPT !.width = TimesShrink(p.width),
                            !.height = TimesShrink(p.height),
                            !.depth = TimesShrink(p.depth),
                            !.shift_amount = TimesShrink(p.shift_amount),
                            !.glue_set = RatioShrink(p.glue_set)]
             ELSE c)
        ELSE IF IsBox(p)
        THEN IF shrink_scales(size)
             THEN [n EXCEPT !.width = TimesShrink(p.width),
                            !.height = TimesShrink(p.height),
                            !.depth = TimesShrink(p.depth)]
             ELSE n
        ELSE IF IsGlue(p)
        THEN IF shrink_scales(size) /\ p.glue_spec.width # 0
             THEN [n EXCEPT !.glue_spec.width = TimesShrink(p.glue_spec.width)]
             ELSE n
        ELSE IF IsKern(p)
        THEN IF shrink_scales(size)
             THEN [n EXCEPT !.width = TimesShrink(p.width)]
             ELSE n
        ELSE n

----------------------------------------------------------------------------
(* grow *)

RECURSIVE grow(_)
grow_children(children) == [i \in 1..Len(children) |-> grow(children[i])]

\* Node.grow .. Kern.grow: the size level goes down by one and the lengths
\* are multiplied by GROW_FACTOR, whatever the level
grow(p) ==
    LET n == [p EXCEPT !.size = p.size - 1]
    IN  IF p.kind = "Char"
        THEN [n EXCEPT !.fontsize = TimesGrow(p.fontsize),
                       !.width = TimesGrow(p.width),
                       !.height = TimesGrow(p.height),
                       !.depth = TimesGrow(p.depth)]
        ELSE IF p.kind = "Accent"
        THEN Accent_update_metrics(
                 [n EXCEPT !.fontsize = TimesGrow(p.fontsize)])
        ELSE IF IsList(p)
        THEN With([n EXCEPT !.children = grow_children(p.children)], LAMBDA c :
             [c EXCEPT !.width = TimesGrow(p.width),
                       !.height = TimesGrow(p.height),
                       !.depth = TimesGrow(p.depth),
                       !.shift_amount = TimesGrow(p.shift_amount),
                       !.glue_set = RatioGrow(p.glue_set)])
        ELSE IF IsBox(p)
        THEN [n EXCEPT !.width = TimesGrow(p.width),
                       !.height = TimesGrow(p.height),
                       !.depth = TimesGrow(p.depth)]
        ELSE IF IsGlue(p)
        THEN IF p.glue_spec.width # 0
             THEN [n EXCEPT !.glue_spec.width = TimesGrow(p.glue_spec.width)]
             ELSE n
        ELSE IF IsKern(p)
        THEN [n EXCEPT !.width = TimesGrow(p.width)]
        ELSE n

----------------------------------------------------------------------------
(* Ship.  st = [cur_h, cur_v, cur_s, max_push, calls, err] is the Ship      *)
(* object's state plus the draw calls the font layer was sent and the      *)
(* exception, if one was raised; off = [h, v] the origin offset.           *)

GlyphCall(ox, oy, p) ==
    [type |-> "glyph", ox |-> ox, oy |-> oy, c |-> p.c, font |-> p.font,
     fontsize |-> p.fontsize,
     metrics |-> get_metrics(p.font, p.c, p.fontsize, p.dpi),
     x1 |-> 0, y1 |-> 0, x2 |-> 0, y2 |-> 0]
RectCall(x1, y1, x2, y2) ==
    [type |-> "rect", ox |-> 0, oy |-> 0, c |-> "", font |-> "", fontsize |-> 0,
     metrics |-> NoMetrics, x1 |-> x1, y1 |-> y1, x2 |-> x2, y2 |-> y2]

\* Char.render / Accent.render / Rule.render / Box.render (which draws nothing)
render_char(p, x, y) ==
    IF p.kind = "Accent"
    THEN <<GlyphCall(x - p.metrics.xmin, y + p.metrics.ymin, p)>>
    ELSE <<GlyphCall(x, y, p)>>
\* render as it would be if Box.render drew its rectangle as Rule.render does
render_box_drawn(p, x, y, w, h) == <<RectCall(x, y, x + w, y + h)>>
render_box(p, x, y, w, h) ==
    IF p.kind = "Rule" THEN <<RectCall(x, y, x + w, y + h)>> ELSE <<>>

\* round(self.clamp(float(box.glue_set) * cur_glue))
glue_round(glue_set, cur_glue) ==
    With(clamp_quot(glue_set.n * cur_glue, glue_set.d), LAMBDA q :
        RoundQuot(q.n, q.d))

\* The Glue branch as it would be if glue of every order took part
glue_step_any_order(box, p, cur_g, cur_glue) ==
    IF box.glue_sign = 1
    THEN [cur_glue |-> cur_glue + p.glue_spec.stretch,
          cur_g |-> glue_round(box.glue_set, cur_glue + p.glue_spec.stretch)]
    ELSE IF box.glue_sign # 0
    THEN [cur_glue |-> cur_glue + p.glue_spec.shrink,
          cur_g |-> glue_round(box.glue_set, cur_glue + p.glue_spec.shrink)]
    ELSE [cur_glue |-> cur_glue, cur_g |-> cur_g]

\* The Glue branch of hlist_out and vlist_out: the new cur_g and cur_glue
glue_step(box, p, cur_g, cur_glue) ==
    IF box.glue_sign # 0
    THEN IF box.glue_sign = 1
         THEN IF p.glue_spec.stretch_order = box.glue_order
              THEN [cur_glue |-> cur_glue + p.glue_spec.stretch,
                    cur_g |-> glue_round(box.glue_set, cur_glue + p.glue_spec.stretch)]
              ELSE [cur_glue |-> cur_glue, cur_g |-> cur_g]
         ELSE IF p.glue_spec.shrink_order = box.glue_order
              THEN [cur_glue |-> cur_glue + p.glue_spec.shrink,
                    cur_g |-> glue_round(box.glue_set, cur_glue + p.glue_spec.shrink)]
              ELSE [cur_glue |-> cur_glue, cur_g |-> cur_g]
    ELSE [cur_glue |-> cur_glue, cur_g |-> cur_g]

\* hlist_out's Box branch reads `baseline`, a name that is never bound (the
\* local is base_line): the statements under the test raise NameError.
hlist_box_raises(rule_height, rule_width) == rule_height > 0 /\ rule_width > 0

RECURSIVE hlist_out(_, _, _)
RECURSIVE vlist_out(_, _, _)
RECURSIVE hlist_loop(_, _, _, _)
RECURSIVE vlist_loop(_, _, _, _)

\* One pass of hlist_out's loop; l = [st, cur_g, cur_glue, children]
hlist_loop(box, i, l, off) ==
    IF i > Len(l.children) \/ l.st.err # "none" THEN l
    ELSE
    LET p  == l.children[i]
        st == l.st
        base_line == l.base_line
    IN  hlist_loop(box, i + 1,
        IF IsChar(p)
        THEN [l EXCEPT !.st.calls = @ \o render_char(p, st.cur_h + off.h, st.cur_v + off.v),
                       !.st.cur_h = @ + p.width]
        ELSE IF IsList(p)
        THEN IF Len(p.children) = 0
             THEN [l EXCEPT !.st.cur_h = @ + p.width]
             ELSE LET edge == st.cur_h
                      st1  == [st EXCEPT !.cur_v = base_line + p.shift_amount] IN
                  With(IF p.kind = "Hlist" THEN hlist_out(p, st1, off)
                       ELSE vlist_out(p, st1, off), LAMBDA r :
                      [l EXCEPT !.st = IF r.st.err # "none" THEN r.st
                                       ELSE [r.st EXCEPT !.cur_h = edge + p.width,
                                                         !.cur_v = base_line],
                                !.children[i] = r.box])
        ELSE IF IsBox(p)
        THEN LET rule_height == IF IsInf(p.height) THEN box.height ELSE p.height
                 rule_depth  == IF IsInf(p.depth) THEN box.depth ELSE p.depth
                 rule_width  == p.width
             IN  IF hlist_box_raises(rule_height, rule_width)
                 THEN [l EXCEPT !.st.err = "NameError"]
                 ELSE [l EXCEPT !.st.cur_h = @ + rule_width]
        ELSE IF IsGlue(p)
        THEN With(glue_step(box, p, l.cur_g, l.cur_glue), LAMBDA g :
             LET rule_width == (p.glue_spec.width - l.cur_g) + g.cur_g IN
                 [l EXCEPT !.cur_g = g.cur_g, !.cur_glue = g.cur_glue,
                           !.st.cur_h = @ + rule_width])
        ELSE IF IsKern(p)
        THEN [l EXCEPT !.st.cur_h = @ + p.width]
        ELSE l,
        off)

\* Ship.hlist_out(box): [st, box, cur_g]; cur_g is what the loop ended with
hlist_out(box, st, off) ==
    LET st1 == [st EXCEPT !.cur_s = st.cur_s + 1,
                          !.max_push = Max(st.cur_s + 1, st.max_push)] IN
    With(hlist_loop(box, 1,
             [st |-> st1, cur_g |-> 0, cur_glue |-> 0,
              children |-> box.children, base_line |-> st.cur_v], off), LAMBDA r :
        [st |-> IF r.st.err # "none" THEN r.st
                ELSE [r.st EXCEPT !.cur_s = @ - 1],
         box |-> [box EXCEPT !.children = r.children],
         cur_g |-> r.cur_g])

\* One pass of vlist_out's loop; l = [st, cur_g, cur_glue, children, left_edge]
vlist_loop(box, i, l, off) ==
    IF i > Len(l.children) \/ l.st.err # "none" THEN l
    ELSE
    LET p  == l.children[i]
        st == l.st
        left_edge == l.left_edge
    IN  vlist_loop(box, i + 1,
        IF IsList(p)
        THEN IF Len(p.children) = 0
             THEN [l EXCEPT !.st.cur_v = @ + p.height + p.depth]
             ELSE LET save_v == st.cur_v + p.height
                      st1    == [st EXCEPT !.cur_v = save_v,
                                           !.cur_h = left_edge + p.shift_amount]
                      p1     == [p EXCEPT !.width = box.width] IN
                  With(IF p.kind = "Hlist" THEN hlist_out(p1, st1, off)
                       ELSE vlist_out(p1, st1, off), LAMBDA r :
                      [l EXCEPT !.st = IF r.st.err # "none" THEN r.st
                                       ELSE [r.st EXCEPT !.cur_v = save_v + p.depth,
                                                         !.cur_h = left_edge],
                                !.children[i] = r.box])
        ELSE IF IsBox(p)
        THEN LET rule_depth  == p.depth
                 rule_width  == IF IsInf(p.width) THEN box.width ELSE p.width
                 rule_height == p.height + rule_depth
             IN  IF rule_height > 0 /\ rule_depth > 0
                 THEN [l EXCEPT !.st.cur_v = @ + rule_height,
                                !.st.calls = @ \o render_box(p,
                                    st.cur_h + off.h,
                                    st.cur_v + rule_height + off.v,
                                    rule_width, rule_height)]
                 ELSE l
        ELSE IF IsGlue(p)
        THEN With(glue_step(box, p, l.cur_g, l.cur_glue), LAMBDA g :
             LET rule_height == (p.glue_spec.width - l.cur_g) + g.cur_g IN
                 [l EXCEPT !.cur_g = g.cur_g, !.cur_glue = g.cur_glue,
                           !.st.cur_v = @ + rule_height])
        ELSE IF IsKern(p)
        THEN [l EXCEPT !.st.cur_v = @ + p.width]
        ELSE IF IsChar(p)
        THEN [l EXCEPT !.st.err = "RuntimeError"]
        ELSE l,
        off)

\* Ship.vlist_out(box): [st, box, cur_g]
vlist_out(box, st, off) ==
    LET st1 == [st EXCEPT !.cur_s = st.cur_s + 1,
                          !.max_push = Max(st.max_push, st.cur_s + 1),
                          !.cur_v = st.cur_v - box.height] IN
    With(vlist_loop(box, 1,
             [st |-> st1, cur_g |-> 0, cur_glue |-> 0,
              children |-> box.children, left_edge |-> st.cur_h], off), LAMBDA r :
        [st |-> IF r.st.err # "none" THEN r.st
                ELSE [r.st EXCEPT !.cur_s = @ - 1],
         box |-> [box EXCEPT !.children = r.children],
         cur_g |-> r.cur_g])

ShipStart == [cur_h |-> 0, cur_v |-> 0, cur_s |-> 0, max_push |-> 0,
              calls |-> <<>>, err |-> "none"]

\* ship as it would be if it started every pass at the origin 0, 0
ship_at_origin(ox, oy, b) == hlist_out(b, ShipStart, [h |-> 0, v |-> b.height])
\* Ship.__call__(ox, oy, box): always enters through hlist_out
ship(ox, oy, b) == hlist_out(b, ShipStart, [h |-> ox, v |-> oy + b.height])

----------------------------------------------------------------------------
(* MathtextBackendBbox *)

\* MathtextBackendBbox.render_glyph / render_rect_filled: the rectangle a draw
\* call passes to _update_bbox (a glyph's ink box, a filled rectangle as is)
call_box(call) ==
    IF call.type = "glyph"
    THEN [x1 |-> call.ox + call.metrics.xmin, y1 |-> call.oy - call.metrics.ymax,
          x2 |-> call.ox + call.metrics.xmax, y2 |-> call.oy - call.metrics.ymin]
    ELSE [x1 |-> call.x1, y1 |-> call.y1, x2 |-> call.x2, y2 |-> call.y2]

\* MathtextBackendBbox._update_bbox
update_bbox(bbox, r) ==
    [x1 |-> Min(bbox.x1, r.x1), y1 |-> Min(bbox.y1, r.y1),
     x2 |-> Max(bbox.x2, r.x2), y2 |-> Max(bbox.y2, r.y2)]

RECURSIVE collect_bbox(_, _, _)
collect_bbox(calls, i, bbox) ==
    IF i > Len(calls) THEN bbox
    ELSE collect_bbox(calls, i + 1, update_bbox(bbox, call_box(calls[i])))

BboxInit == [x1 |-> 0, y1 |-> 0, x2 |-> 0, y2 |-> 0]

\* get_results' bbox as it would be without the margin
bbox_unexpanded(bbox) == bbox

\* get_results: bbox = [bbox[0] - 1, bbox[1] - 1, bbox[2] + 1, bbox[3] + 1]
bbox_expand(bbox) ==
    [x1 |-> bbox.x1 - Unit, y1 |-> bbox.y1 - Unit,
     x2 |-> bbox.x2 + Unit, y2 |-> bbox.y2 + Unit]

\* MathtextBackendBbox.get_results(box): the first ship feeds the bbox, the
\* second ship draws into the real backend from the shifted origin;
\* switched: _switch_to_real_backend ran, which it does between the two.
\* [err, box, calls1, bbox, calls2, canvas, switched]
bbox_get_results(b) ==
    With(ship(0, 0, b), LAMBDA r1 :
    With(bbox_expand(collect_bbox(r1.st.calls, 1, BboxInit)), LAMBDA bbox :
    With(ship(-bbox.x1, -bbox.y1, r1.box), LAMBDA r2 :
    LET none == [err |-> r1.st.err, box |-> r1.box, calls1 |-> r1.st.calls,
                 bbox |-> BboxInit, calls2 |-> <<>>,
                 canvas |-> [w |-> 0, h |-> 0, d |-> 0],
                 switched |-> FALSE] IN
        IF r1.st.err # "none" THEN none
        ELSE [err |-> r2.st.err, box |-> r2.box, calls1 |-> r1.st.calls,
              bbox |-> bbox, calls2 |-> r2.st.calls,
              canvas |-> [w |-> bbox.x2 - bbox.x1,
                          h |-> (bbox.y2 - bbox.y1) - b.depth,
                          d |-> (bbox.y2 - bbox.y1) - b.height],
              switched |-> TRUE])))

\* math.ceil on a length: the least whole number of pixels not below v
ceil(v) == ((v + Unit - 1) \div Unit) * Unit

\* MathtextBackendAggRender.set_canvas_size(w, h, d): the FT2Image it makes,
\* self.image = FT2Image(ceil(w), ceil(h + d))
Agg_set_canvas_size(w, h, d) == [width |-> ceil(w), height |-> ceil(h + d)]

----------------------------------------------------------------------------
(* The parser.  A parse is the run of Parser's parse actions over the      *)
(* input, in the order of the text.  pyparsing decides which actions run:  *)
(* an element's action replaces the element's tokens by what it returns;   *)
(* a ParseException makes the enclosing alternative fail; any other        *)
(* exception, ParseFatalException included, leaves parseString at once.    *)
(* ps is the parser object during a parse: _state_stack, _em_width_cache,  *)
(* _expr, and the exception on its way out (class "none": no exception).   *)

\* an exception: its class, its message, and whether the message carries the
\* input line and the caret under the error column
Exc(cls, msg) == [cls |-> cls, msg |-> msg, located |-> FALSE]
NoExc == Exc("none", "")

\* Parser.State
State(font_output, font, fontsize, dpi) ==
    [font_output |-> font_output, font |-> font, fontsize |-> fontsize,
     dpi |-> dpi]

\* The parser also carries the record of its frames, which the code does
\* not keep: opened holds, for each state pushed and not yet popped, the
\* state that was current before the push and the state the frame started
\* in; frames holds the frames popped so far, each with the state current
\* before its push (before), the state it started in (start), the state
\* popped (last) and the state current after the pop (after).
ParserObj(state_stack, em_width_cache, expr, err) ==
    [state_stack |-> state_stack, em_width_cache |-> em_width_cache,
     expr |-> expr, err |-> err, opened |-> <<>>, frames |-> <<>>]

Failed(ps) == ps.err.cls # "none"
Raise(ps, cls, msg) == IF Failed(ps) THEN ps ELSE [ps EXCEPT !.err = Exc(cls, msg)]

\* what a parse action hands back: the parser and the tokens it returns
R(ps, toks) == [ps |-> ps, toks |-> IF Failed(ps) THEN <<>> ELSE toks]
Fail(ps, cls, msg) == R(Raise(ps, cls, msg), <<>>)

get_state(ps) == ps.state_stack[Len(ps.state_stack)]
\* self._state_stack.pop()
pop_state(ps) ==
    LET o == ps.opened[Len(ps.opened)] IN
    [ps EXCEPT !.state_stack = SubSeq(@, 1, Len(@) - 1),
               !.opened = SubSeq(@, 1, Len(@) - 1),
               !.frames = Append(@, [kind |-> o.kind, before |-> o.before,
                                     start |-> o.start,
                                     last |-> get_state(ps),
                                     after |-> ps.state_stack[
                                                 Len(ps.state_stack) - 1]])]
\* self._state_stack.append(self.get_state().copy())
push_state(ps) ==
    [ps EXCEPT !.state_stack = Append(@, get_state(ps)),
               !.opened = Append(@, [kind |-> "", before |-> get_state(ps),
                                     start |-> get_state(ps)])]
\* the assignment as it would be if every state on the stack were one object
set_font_shared(ps, name) ==
    [ps EXCEPT !.state_stack =
                   [i \in 1..Len(ps.state_stack) |->
                       [ps.state_stack[i] EXCEPT !.font = name]]]
\* self.get_state().font = name
set_font(ps, name) ==
    [ps EXCEPT !.state_stack[Len(ps.state_stack)].font = name]
\* the frame just pushed is of this kind and starts in the current state
frame_starts(ps, kind) ==
    [ps EXCEPT !.opened[Len(ps.opened)].kind = kind,
               !.opened[Len(ps.opened)].start = get_state(ps)]

\* the symbols of the inputs, as the lookup tables see them
ExGlyphs == {"\\xa1", "\\xb3", "\\xb5", "\\xc3", "\\xa2", "\\xb4", "\\xb6",
             "\\x21", "\\x70", "\\x71", "\\x72", "\\x73", "\\x5e", "\\x62",
             "\\x63", "\\x64"}
SingleChars == {"x", "y", "a", "A", "f", "m", "s", "i", "n", "l", "1", "2",
                "=", "+", ",", " ", "(", ")", "|", "u221a", "u0302"}
                   \cup ExGlyphs
LetterChars == {"x", "y", "a", "A", "f", "m", "s", "i", "n", "l"}
CmexSymbols == {"\\sum", "\\int", "\\__sqrt__", "\\widehat"}
SymbolOf(c) ==
    Symbol(c, c \in SingleChars, c = "A", c \in LetterChars, FALSE,
           c \notin ExGlyphs,
           IF c \in LetterChars THEN "cmmi10" ELSE "cmr10",
           c \in CmexSymbols, TRUE, TRUE, c = "\\int")

\* the font files of a parse hold every glyph asked for
ParseEnv == [in_charmap |-> TRUE, in_cm_charmap |-> TRUE, has_dummy |-> TRUE]

\* Char(c, state) or Accent(c, state): [err, node], err the exception that
\* get_metrics lets through from the glyph lookup
new_char(char_class, c, state) ==
    With(get_glyph(state.font_output, state.font, SymbolOf(c), ParseEnv), LAMBDA g :
    LET p == IF char_class = "Accent"
             THEN Accent(c, state.font, state.fontsize, state.dpi)
             ELSE Char(c, state.font, state.fontsize, state.dpi) IN
        IF g.raised # "none" THEN [err |-> g.raised, node |-> NodeInit]
        ELSE [err |-> "none", node |-> [p EXCEPT !.metrics.slanted = g.slanted]])

\* Parser._make_space(percentage), percentage in thousandths: [ps, node]
make_space(ps, percentage) ==
    LET state == get_state(ps) IN
    With({e \in ps.em_width_cache :
             /\ e.font = state.font
             /\ e.fontsize = state.fontsize
             /\ e.dpi = state.dpi}, LAMBDA hit :
    With(get_glyph(state.font_output, state.font, SymbolOf("m"),
                   ParseEnv), LAMBDA g :
    With(IF hit # {} THEN (CHOOSE e \in hit : TRUE).width
         ELSE get_metrics(state.font, "m", state.fontsize,
                          state.dpi).advance, LAMBDA width :
    LET ps2   == IF hit # {} THEN ps
                 ELSE [ps EXCEPT !.em_width_cache = @ \cup
                          {[font |-> state.font, fontsize |-> state.fontsize,
                            dpi |-> state.dpi, width |-> width]}] IN
        IF Failed(ps) THEN [ps |-> ps, node |-> NodeInit]
        ELSE IF hit = {} /\ g.raised # "none"
        THEN [ps |-> Raise(ps, g.raised, "get_metrics"), node |-> NodeInit]
        ELSE [ps |-> ps2, node |-> Kern(MulFrac(width, percentage, Unit))])))

\* Parser._space_widths, in thousandths of an em
space_widths(a) ==
    CASE a = "\\ "      -> 300
      [] a = "\\,"      -> 400
      [] a = "\\;"      -> 800
      [] a = "\\quad"   -> 1600
      [] a = "\\qquad"  -> 3200
      [] a = "\\!"      -> -400
      [] a = "\\/"      -> 400

\* Parser.space
space(ps, a) ==
    With(make_space(ps, space_widths(a)), LAMBDA box :
                                                  R(box.ps, <<box.node>>))

\* Parser.customspace; n is float(toks[1]) in thousandths
customspace(ps, n) ==
    With(make_space(ps, n), LAMBDA box :
                                    R(box.ps, <<box.node>>))

\* the members of Parser._spaced_symbols and _punctuation_symbols among the
\* symbols of the inputs
spaced_symbols == {"=", "+"}
punctuation_symbols == {","}
overunder_symbols == {"\\sum"}
overunder_functions == {"lim"}
dropsub_symbols == {"\\int"}

\* Parser.symbol
symbol(ps, c) ==
    With(new_char("Char", c, get_state(ps)), LAMBDA char :
    With(make_space(ps, 200), LAMBDA s1 :
    With(make_space(s1.ps, 200), LAMBDA s2 :
        IF char.err = "ValueError"
        THEN Fail(ps, "ParseFatalException", "Unknown symbol")
        ELSE IF char.err # "none" THEN Fail(ps, char.err, "Char")
        ELSE IF c \in spaced_symbols
        THEN R(s2.ps, <<Hlist(<<s1.node, char.node, s2.node>>, FALSE)>>)
        ELSE IF c \in punctuation_symbols
        THEN R(s1.ps, <<Hlist(<<char.node, s1.node>>, FALSE)>>)
        ELSE R(ps, <<char.node>>))))


\* BakomaFonts._size_alternatives (the delimiters of the inputs)
Alt(fontname, sym) == [fontname |-> fontname, sym |-> sym]
Bakoma_size_alternatives(sym) ==
    CASE sym = "(" ->
            <<Alt("rm", "("), Alt("ex", "\\xa1"), Alt("ex", "\\xb3"),
              Alt("ex", "\\xb5"), Alt("ex", "\\xc3")>>
      [] sym = ")" ->
            <<Alt("rm", ")"), Alt("ex", "\\xa2"), Alt("ex", "\\xb4"),
              Alt("ex", "\\xb6"), Alt("ex", "\\x21")>>
      [] sym = "\\__sqrt__" ->
            <<Alt("ex", "\\x70"), Alt("ex", "\\x71"), Alt("ex", "\\x72"),
              Alt("ex", "\\x73")>>
      [] sym = "\\widehat" ->
            <<Alt("rm", "\\x5e"), Alt("ex", "\\x62"), Alt("ex", "\\x63"),
              Alt("ex", "\\x64")>>
      [] OTHER -> <<>>

\* which of the STIX fonts 0..5 hold the symbol, and under which character
Stix_size_fonts(sym) ==
    CASE sym \in {"(", ")"} -> <<Alt("0", sym), Alt("1", sym), Alt("2", sym)>>
      [] sym = "\\__sqrt__" ->
            <<Alt("0", "u221a"), Alt("1", "u221a"), Alt("2", "u221a"),
              Alt("3", "u221a")>>
      [] sym = "\\widehat" -> <<Alt("0", "u0302"), Alt("1", "u0302")>>
      [] OTHER -> <<Alt("0", sym)>>

\* font_output.get_sized_alternatives_for_symbol(fontname, sym)
get_sized_alternatives_for_symbol(font_output, fontname, sym) ==
    IF font_output \in {"bakoma", "unicode_cm"}
    THEN IF Bakoma_size_alternatives(sym) # <<>>
         THEN Bakoma_size_alternatives(sym)
         ELSE <<Alt(fontname, sym)>>
    ELSE IF font_output = "stix"
    THEN IF ~SymbolOf(sym).single /\ ~SymbolOf(sym).in_tex2uni
         THEN <<Alt(fontname, sym)>>
         ELSE Stix_size_fonts(sym)
    ELSE <<Alt(fontname, sym)>>

\* StixFonts._fontmap's keys 0..5: STIXGeneral and STIXSiz1Sym..STIXSiz5Sym
StixSizeFont(i) == <<"0", "1", "2", "3", "4", "5">>[i + 1]

\* unichr(get_unicode_index(sym)): a single character is itself, a TeX name
\* is the character tex2uni gives it
Unichr(sym) == IF sym.single THEN sym.name ELSE <<"unichr", sym.name>>

\* StixFonts.get_sized_alternatives_for_symbol, its loop from font i on;
\* held is the set of the fonts 0..5 whose charmap has the character
RECURSIVE Stix_alternatives_from(_, _, _)
Stix_alternatives_from(i, held, sym) ==
    IF i > 5 THEN <<>>
    ELSE (IF i \in held THEN <<Alt(StixSizeFont(i), Unichr(sym))>> ELSE <<>>)
             \o Stix_alternatives_from(i + 1, held, sym)

\* StixFonts.get_sized_alternatives_for_symbol(fontname, sym) with the class
\* attribute _size_alternatives as it stands: what is returned and
\* _size_alternatives afterwards
Stix_get_sized_alternatives_for_symbol(size_alternatives, fontname, sym, held) ==
    LET cached == {e \in size_alternatives : e.sym = sym.name}
        filled == {e \in cached : e.alternatives # <<>>} IN
    IF filled # {}
    THEN [alternatives |-> (CHOOSE e \in filled : TRUE).alternatives,
          size_alternatives |-> size_alternatives]
    ELSE IF ~(sym.single \/ sym.in_tex2uni)
    THEN [alternatives |-> <<Alt(fontname, sym.name)>>,
          size_alternatives |-> size_alternatives]
    ELSE With(Stix_alternatives_from(0, held, sym), LAMBDA alternatives :
         [alternatives |-> alternatives,
          size_alternatives |->
              (size_alternatives \ cached)
                  \cup {[sym |-> sym.name, alternatives |-> alternatives]}])

\* get_sized_alternatives_for_symbol(fontname, sym) of each family's class
Fonts_get_sized_alternatives_for_symbol(family, size_alternatives, fontname, sym, held) ==
    CASE family \in {"bakoma", "unicode_cm"} ->
            [alternatives |->
                 IF Bakoma_size_alternatives(sym.name) # <<>>
                 THEN Bakoma_size_alternatives(sym.name)
                 ELSE <<Alt(fontname, sym.name)>>,
             size_alternatives |-> size_alternatives]
      [] family = "stix" ->
            Stix_get_sized_alternatives_for_symbol(size_alternatives,
                                                   fontname, sym, held)
      [] family \in {"unicode", "ps"} ->
            [alternatives |-> <<Alt(fontname, sym.name)>>,
             size_alternatives |-> size_alternatives]

\* The for loop of AutoHeightChar and AutoWidthChar: [err, i], i the
\* alternative the loop ends on (the first that is large enough, else the
\* last), err the exception of a Char that could not be made
RECURSIVE auto_loop(_, _, _, _, _, _)
auto_loop(alternatives, i, state, char_class, target, by_width) ==
    With(new_char(char_class, alternatives[i].sym,
                  [state EXCEPT !.font = alternatives[i].fontname]), LAMBDA char :
    LET size == IF by_width THEN char.node.width
                ELSE char.node.height + char.node.depth IN
        IF char.err # "none" THEN [err |-> char.err, i |-> i]
        ELSE IF size >= target \/ i = Len(alternatives)
        THEN [err |-> "none", i |-> i]
        ELSE auto_loop(alternatives, i + 1, state, char_class, target,
                       by_width))

\* the common part of the two classes after the call of
\* get_sized_alternatives_for_symbol: [err, char], char the glyph rescaled
\* by target / size.  With no alternative the loop body never runs and the
\* read of char after it raises.
auto_char(alternatives, target, state, char_class, by_width) ==
    IF alternatives = <<>>
    THEN [err |-> "UnboundLocalError", char |-> NodeInit]
    ELSE
    With(auto_loop(alternatives, 1, state, char_class, target,
                   by_width), LAMBDA l :
    LET alt   == alternatives[l.i] IN
    With([state EXCEPT !.font = alt.fontname], LAMBDA st1 :
    With(new_char(char_class, alt.sym, st1).node, LAMBDA char1 :
    LET size  == IF by_width THEN char1.width
                 ELSE char1.height + char1.depth
        st2   == [st1 EXCEPT !.fontsize = MulFrac(@, target, size)] IN
        IF l.err # "none" THEN [err |-> l.err, char |-> NodeInit]
        ELSE IF size = 0 THEN [err |-> "ZeroDivisionError", char |-> NodeInit]
        ELSE With(new_char(char_class, alt.sym, st2), LAMBDA char2 :
                 [err |-> char2.err, char |-> char2.node]))))

\* AutoHeightChar.__init__ from its second statement on, alternatives being
\* what the first statement got: [err, node]
AutoHeightChar_sized(alternatives, height, depth, state) ==
    With(auto_char(alternatives, height + depth, state, "Char", FALSE), LAMBDA a :
    IF a.err # "none" THEN [err |-> a.err, node |-> NodeInit]
    ELSE [err  |-> "none",
          node |-> [Hlist(<<a.char>>, TRUE) EXCEPT
                       !.shift_amount = depth - a.char.depth]])

\* AutoHeightChar(c, height, depth, state): [err, node]
AutoHeightChar(c, height, depth, state) ==
    AutoHeightChar_sized(get_sized_alternatives_for_symbol(
                             state.font_output, state.font, c),
                         height, depth, state)

\* AutoWidthChar.__init__ from its second statement on: [err, node]
AutoWidthChar_sized(alternatives, width, state, char_class) ==
    With(auto_char(alternatives, width, state, char_class, TRUE), LAMBDA a :
    IF a.err # "none" THEN [err |-> a.err, node |-> NodeInit]
    ELSE [err |-> "none", node |-> Hlist(<<a.char>>, TRUE)])

\* AutoWidthChar(c, width, state, char_class=...): [err, node]
AutoWidthChar(c, width, state, char_class) ==
    AutoWidthChar_sized(get_sized_alternatives_for_symbol(
                            state.font_output, state.font, c),
                        width, state, char_class)


\* Parser.char_over_chars for 'AA', the one entry of _char_over_chars:
\* a ring at half the size over a roman A
char_over_chars(ps, sym) ==
    LET state      == get_state(ps)
        thickness  == get_underline_thickness(state.font, state.fontsize,
                                              state.dpi)
        over_state == [state EXCEPT !.fontsize = MulFrac(@, 5, 10)] IN
    With(new_char("Accent", "\\circ", over_state), LAMBDA over :
    LET under_state == [state EXCEPT !.font = "rm"] IN
    With(new_char("Char", "A", under_state), LAMBDA under :
    LET width      == Max(over.node.width, under.node.width)
        over_centered  == hpack(HCentered(<<over.node>>), width, "exactly")
        under_centered == hpack(HCentered(<<under.node>>), width, "exactly") IN
        IF sym # "AA"
        THEN Fail(ps, "ParseFatalException", "Error parsing symbol")
        ELSE IF over.err # "none" THEN Fail(ps, over.err, "Accent")
        ELSE IF under.err # "none" THEN Fail(ps, under.err, "Char")
        ELSE R(ps, <<Vlist(<<over_centered, Vbox(0, thickness * 0),
                             under_centered>>).box>>)))

\* Parser._accent_map and _wide_accents (the accents of the inputs)
accent_map(name) ==
    CASE name = "hat"   -> "\\circumflexaccent"
      [] name = "breve" -> "\\combiningbreve"
      [] name = "bar"   -> "\\combiningoverline"
      [] name = "tilde" -> "\\combiningtilde"
wide_accents == {"widehat", "widetilde"}

\* Parser.accent: toks[0] is [accent, sym]
accent(ps, name, sym) ==
    LET state     == get_state(ps)
        thickness == get_underline_thickness(state.font, state.fontsize,
                                             state.dpi) IN
    With(IF name \in wide_accents
         THEN AutoWidthChar("\\" \o name, sym.width, state,
                            "Accent")
         ELSE new_char("Accent", accent_map(name), state), LAMBDA acc :
    LET centered  == hpack(HCentered(<<acc.node>>), sym.width, "exactly") IN
        IF acc.err # "none" THEN Fail(ps, acc.err, "Accent")
        ELSE R(ps, <<Vlist(<<centered, Vbox(0, thickness * 2),
                             Hlist(<<sym>>, TRUE)>>).box>>))

\* the letters of the function names of the inputs
function_letters(name) ==
    CASE name = "sin" -> <<"s", "i", "n">>
      [] name = "lim" -> <<"l", "i", "m">>

\* [Char(c, state) for c in s]: [err, nodes]
RECURSIVE chars_of(_, _, _)
chars_of(s, i, state) ==
    IF i > Len(s) THEN [err |-> "none", nodes |-> <<>>]
    ELSE With(new_char("Char", s[i], state), LAMBDA char :
         With(chars_of(s, i + 1, state), LAMBDA rest :
             IF char.err # "none" THEN [err |-> char.err, nodes |-> <<>>]
             ELSE IF rest.err # "none" THEN rest
             ELSE [err |-> "none", nodes |-> <<char.node>> \o rest.nodes]))

\* Parser.function
function(ps, name) ==
    With(frame_starts(set_font(push_state(ps), "rm"), "function"), LAMBDA ps1 :
    With(chars_of(function_letters(name), 1, get_state(ps1)), LAMBDA chars :
    LET hlist == Hlist(chars.nodes, TRUE) IN
        IF chars.err # "none" THEN Fail(ps1, chars.err, "Char")
        ELSE R(pop_state(ps1), <<[hlist EXCEPT !.function_name = name]>>)))

\* Parser.start_group; latexfont is "" when the brace has no font command
start_group(ps, latexfont) ==
    With(push_state(ps), LAMBDA ps1 :
    R(frame_starts(IF latexfont # "" THEN set_font(ps1, latexfont) ELSE ps1,
                   "group"), <<>>))

\* Parser.group
group(ps, toks) == R(ps, <<Hlist(toks, TRUE)>>)

\* Parser.end_group
end_group(ps) == R(pop_state(ps), <<>>)

\* Parser.font
font(ps, name) == R(set_font(ps, name), <<>>)

\* Parser.is_overunder, is_dropsub, is_slanted
is_overunder(nucleus) ==
    IF nucleus.kind = "Char" \/ nucleus.kind = "Accent"
    THEN nucleus.c \in overunder_symbols
    ELSE IF nucleus.kind = "Hlist" /\ nucleus.function_name # ""
    THEN nucleus.function_name \in overunder_functions
    ELSE FALSE
is_dropsub(nucleus) == IsChar(nucleus) /\ nucleus.c \in dropsub_symbols
is_slanted(nucleus) == IsChar(nucleus) /\ nucleus.metrics.slanted


\* the script operator as a token of the subsuper group
ScriptOp(op) == [NodeInit EXCEPT !.kind = "op", !.c = op]
NoNode == NodeInit

\* SUBDROP, SUP1, SUB1, DELTA and SCRIPT_SPACE times a length
TimesSUBDROP(v) == MulFrac(v, 3, 10)
TimesSUP1(v) == MulFrac(v, 7, 10)
TimesSUB1(v) == MulFrac(v, 0, 10)
TimesDELTA(v) == MulFrac(v, 18, 100)
TimesSCRIPT_SPACE(v) == MulFrac(v, 2, 10)

\* the sorting as it would be if a repeated operator were let through and
\* the scripts past the second were dropped
subsuper_parts_lenient(t) ==
    LET Parts(err, nucleus, has_sub, sub, has_super, super) ==
            [err |-> err, nucleus |-> nucleus, has_sub |-> has_sub,
             sub |-> sub, has_super |-> has_super, super |-> super]
    IN  IF Len(t) = 2
        THEN IF t[1].c = "_" THEN Parts("", Hbox(0), TRUE, t[2], FALSE, NoNode)
             ELSE Parts("", Hbox(0), FALSE, NoNode, TRUE, t[2])
        ELSE IF Len(t) = 3
        THEN IF t[2].c = "_" THEN Parts("", t[1], TRUE, t[3], FALSE, NoNode)
             ELSE Parts("", t[1], FALSE, NoNode, TRUE, t[3])
        ELSE IF Len(t) >= 5 /\ Len(t) % 2 = 1
        THEN IF t[2].c = "_" THEN Parts("", t[1], TRUE, t[3], TRUE, t[5])
             ELSE Parts("", t[1], TRUE, t[5], TRUE, t[3])
        ELSE Parts("Subscript/superscript sequence is too long", NoNode, FALSE,
               NoNode, FALSE, NoNode)

\* Parser.subsuperscript, the part that sorts toks[0] into nucleus, sub and
\* super: [err, one, nucleus, has_sub, sub, has_super, super]
subsuper_parts(t) ==
    LET Parts(err, nucleus, has_sub, sub, has_super, super) ==
            [err |-> err, nucleus |-> nucleus, has_sub |-> has_sub,
             sub |-> sub, has_super |-> has_super, super |-> super]
    IN  IF Len(t) = 2
        THEN IF t[1].c = "_" THEN Parts("", Hbox(0), TRUE, t[2], FALSE, NoNode)
             ELSE Parts("", Hbox(0), FALSE, NoNode, TRUE, t[2])
        ELSE IF Len(t) = 3
        THEN IF t[2].c = "_" THEN Parts("", t[1], TRUE, t[3], FALSE, NoNode)
             ELSE Parts("", t[1], FALSE, NoNode, TRUE, t[3])
        ELSE IF Len(t) = 5
        THEN IF t[2].c = t[4].c
             THEN IF t[2].c = "_"
                  THEN Parts("Double subscript", NoNode, FALSE, NoNode, FALSE,
                         NoNode)
                  ELSE Parts("Double superscript", NoNode, FALSE, NoNode, FALSE,
                         NoNode)
             ELSE IF t[2].c = "_" THEN Parts("", t[1], TRUE, t[3], TRUE, t[5])
             ELSE Parts("", t[1], TRUE, t[5], TRUE, t[3])
        ELSE Parts("Subscript/superscript sequence is too long", NoNode, FALSE,
               NoNode, FALSE, NoNode)

\* the over/under branch: limits above and below the nucleus
subsuper_overunder(p, rule_thickness) ==
    LET nucleus == p.nucleus IN
    With(shrink(p.super), LAMBDA super :
    With(shrink(p.sub), LAMBDA sub :
    LET w1    == IF p.has_super THEN Max(nucleus.width, super.width)
                 ELSE nucleus.width
        width == IF p.has_sub THEN Max(w1, sub.width) ELSE w1
        hsup  == hpack(HCentered(<<super>>), width, "exactly")
        hnuc  == hpack(HCentered(<<nucleus>>), width, "exactly") IN
    With(hpack(HCentered(<<sub>>), width, "exactly"), LAMBDA hsub :
    LET shift == IF p.has_sub
                 THEN hsub.height + hsub.depth + rule_thickness * 2
                 ELSE 0
        vlist == (IF p.has_super THEN <<hsup, Kern(rule_thickness * 2)>>
                  ELSE <<>>)
                 \o <<hnuc>>
                 \o (IF p.has_sub THEN <<Kern(rule_thickness * 2), hsub>>
                     ELSE <<>>)
        v     == Vlist(vlist).box IN
        Hlist(<<[v EXCEPT !.shift_amount = shift + MulFrac(nucleus.depth, 5, 10)]>>,
              TRUE))))

\* the script branch as it would be without the clearance between the scripts
subsuper_scripts_unspaced(p, rule_thickness, xHeight) ==
    LET nucleus == p.nucleus
        shift_up0   == nucleus.height - TimesSUBDROP(xHeight) IN
    With(IF is_dropsub(nucleus)
         THEN nucleus.depth + TimesSUBDROP(xHeight)
         ELSE TimesSUBDROP(xHeight), LAMBDA shift_down0 :
    With(Hlist(<<shrink(p.sub)>>, TRUE), LAMBDA xs :
    LET sd1    == Max(shift_down0, 0)
        sd2    == Max(sd1, xs.height - MulFrac(Abs(xHeight * 4), 1, 5)) IN
    With(Hlist(<<shrink(p.super), Kern(TimesSCRIPT_SPACE(xHeight))>>,
               TRUE), LAMBDA x :
    With(Max(shift_up0, TimesSUP1(xHeight)), LAMBDA su1 :
    LET su2    == Max(su1, x.depth + MulFrac(Abs(xHeight), 1, 4)) IN
    With(Hlist(<<shrink(p.sub)>>, TRUE), LAMBDA y :
    With(Max(shift_down0, TimesSUB1(xHeight)), LAMBDA sd3 :
    LET clr    == 2 * rule_thickness - ((su2 - x.depth) - (y.height - sd3))
        su4    == su2
        sd4    == sd3 IN
    With(IF is_slanted(nucleus)
         THEN [x EXCEPT !.shift_amount = TimesDELTA(su4 + sd4)]
         ELSE x, LAMBDA x2 :
    LET both   == Vlist(<<x2, Kern((su4 - x2.depth) - (y.height - sd4)),
                          y>>).box
        script == IF ~p.has_super THEN [xs EXCEPT !.shift_amount = sd2]
                  ELSE IF ~p.has_sub THEN [x EXCEPT !.shift_amount = -su2]
                  ELSE [both EXCEPT !.shift_amount = sd4] IN
        Hlist(<<nucleus, script>>, TRUE))))))))
\* the script branch: sub and super set to the right of the nucleus
subsuper_scripts(p, rule_thickness, xHeight) ==
    LET nucleus == p.nucleus
        shift_up0   == nucleus.height - TimesSUBDROP(xHeight) IN
    With(IF is_dropsub(nucleus)
         THEN nucleus.depth + TimesSUBDROP(xHeight)
         ELSE TimesSUBDROP(xHeight), LAMBDA shift_down0 :
    With(Hlist(<<shrink(p.sub)>>, TRUE), LAMBDA xs :
    LET sd1    == Max(shift_down0, 0)
        sd2    == Max(sd1, xs.height - MulFrac(Abs(xHeight * 4), 1, 5)) IN
    With(Hlist(<<shrink(p.super), Kern(TimesSCRIPT_SPACE(xHeight))>>,
               TRUE), LAMBDA x :
    With(Max(shift_up0, TimesSUP1(xHeight)), LAMBDA su1 :
    LET su2    == Max(su1, x.depth + MulFrac(Abs(xHeight), 1, 4)) IN
    With(Hlist(<<shrink(p.sub)>>, TRUE), LAMBDA y :
    With(Max(shift_down0, TimesSUB1(xHeight)), LAMBDA sd3 :
    LET clr    == 2 * rule_thickness - ((su2 - x.depth) - (y.height - sd3))
        su4    == IF clr > 0 THEN su2 + clr ELSE su2
        sd4    == IF clr > 0 THEN sd3 + clr ELSE sd3 IN
    With(IF is_slanted(nucleus)
         THEN [x EXCEPT !.shift_amount = TimesDELTA(su4 + sd4)]
         ELSE x, LAMBDA x2 :
    LET both   == Vlist(<<x2, Kern((su4 - x2.depth) - (y.height - sd4)),
                          y>>).box
        script == IF ~p.has_super THEN [xs EXCEPT !.shift_amount = sd2]
                  ELSE IF ~p.has_sub THEN [x EXCEPT !.shift_amount = -su2]
                  ELSE [both EXCEPT !.shift_amount = sd4] IN
        Hlist(<<nucleus, script>>, TRUE))))))))

\* Parser.subsuperscript; t is toks[0]
subsuperscript(ps, t) ==
    With(subsuper_parts(t), LAMBDA p :
    LET state == get_state(ps) IN
    With(get_underline_thickness(state.font, state.fontsize,
                                 state.dpi), LAMBDA rule_thickness :
    LET xHeight == get_xheight(state.font, state.fontsize, state.dpi) IN
    With(get_glyph(state.font_output, state.font, SymbolOf("x"),
                   ParseEnv), LAMBDA xg :
        IF Failed(ps) THEN R(ps, <<>>)
        ELSE IF Len(t) = 1 THEN R(ps, t)
        ELSE IF p.err # "" THEN Fail(ps, "ParseFatalException", p.err)
        ELSE IF xg.raised # "none" THEN Fail(ps, xg.raised, "get_xheight")
        ELSE IF is_overunder(p.nucleus)
        THEN R(ps, <<subsuper_overunder(p, rule_thickness)>>)
        ELSE R(ps, <<subsuper_scripts(p, rule_thickness, xHeight)>>))))


\* Parser.frac: toks[0] is [num, den]
frac(ps, num0, den0) ==
    LET state     == get_state(ps) IN
    With(get_underline_thickness(state.font, state.fontsize,
                                 state.dpi), LAMBDA thickness :
    With(shrink(num0), LAMBDA num :
    With(shrink(den0), LAMBDA den :
    LET width == Max(num.width, den.width) + thickness * 10
        cnum  == hpack(HCentered(<<num>>), width, "exactly") IN
    With(hpack(HCentered(<<den>>), width, "exactly"), LAMBDA cden :
    LET vlist == Vlist(<<cnum, Vbox(0, thickness * 2),
                         Hrule(state.font, state.fontsize, state.dpi),
                         Vbox(0, thickness * 4), cden>>).box IN
    With(get_glyph(state.font_output, state.font, SymbolOf("="),
                   ParseEnv), LAMBDA g :
    With(get_metrics(state.font, "=", state.fontsize, state.dpi), LAMBDA metrics :
    LET shift == cden.height
                 - (MulFrac(metrics.ymax + metrics.ymin, 1, 2) - thickness * 3) IN
        IF Failed(ps) THEN R(ps, <<>>)
        ELSE IF g.raised # "none" THEN Fail(ps, g.raised, "get_metrics")
        ELSE R(ps, <<Hlist(<<[vlist EXCEPT !.shift_amount = shift],
                             Hbox(thickness * 2)>>, TRUE)>>)))))))

\* Parser.sqrt: toks[0] is [root, body], root None (has_root FALSE) or the
\* tokens between the brackets.  vpack is called as vpack(height + 1.0,
\* depth, 'exactly'): its mode m receives the depth, which is not
\* 'additional', and its limit l the string, which no number exceeds.
sqrt(ps, has_root, root_toks, body) ==
    LET state     == get_state(ps) IN
    With(get_underline_thickness(state.font, state.fontsize,
                                 state.dpi), LAMBDA thickness :
    LET root   == IF ~has_root THEN Box(0, 0, 0)
                  ELSE shrink(shrink(Hlist(root_toks, TRUE)))
        height0 == body.height - body.shift_amount + thickness * 5
        depth0  == body.depth + body.shift_amount IN
    With(AutoHeightChar("\\__sqrt__", height0, depth0, state), LAMBDA check :
    LET height  == check.node.height - check.node.shift_amount
        depth   == check.node.depth + check.node.shift_amount
        padded_body == Hlist(<<Hbox(thickness * 2), body,
                               Hbox(thickness * 2)>>, TRUE)
        rightside == vpack(Vlist(<<Hrule(state.font, state.fontsize,
                                         state.dpi),
                                   Glue("fill"), padded_body>>).box,
                           height + Unit, "depth", Inf).box
        root_vlist == [Vlist(<<Hlist(<<root>>, TRUE)>>).box EXCEPT
                          !.shift_amount = -MulFrac(height, 6, 10)] IN
        IF Failed(ps) THEN R(ps, <<>>)
        ELSE IF check.err # "none" THEN Fail(ps, check.err, "AutoHeightChar")
        ELSE R(ps, <<Hlist(<<root_vlist,
                             Kern(-MulFrac(check.node.width, 5, 10)),
                             check.node, rightside>>, TRUE)>>)))

\* the nodes that have a height and a depth: every class but Kern and Glue
HasHeight(x) == x.kind \notin {"Kern", "Glue"}

RECURSIVE MaxOver(_, _, _)
MaxOver(s, i, height) ==
    LET v == IF height THEN s[i].height ELSE s[i].depth IN
    IF i = Len(s) THEN v ELSE Max(v, MaxOver(s, i + 1, height))

\* Parser.auto_sized_delimiter: toks is [front, middle, back]
auto_sized_delimiter(ps, front, middle, back) ==
    LET state == get_state(ps)
        none  == [err |-> "none", node |-> NodeInit] IN
    IF Failed(ps) THEN R(ps, <<>>)
    ELSE IF \E i \in 1..Len(middle) : ~HasHeight(middle[i])
    THEN Fail(ps, "AttributeError", "height")
    ELSE IF middle = <<>>
    THEN Fail(ps, "ValueError", "max() arg is an empty sequence")
    ELSE
    With(MaxOver(middle, 1, TRUE), LAMBDA height :
    With(MaxOver(middle, 1, FALSE), LAMBDA depth :
    With(IF front # "." THEN AutoHeightChar(front, height, depth, state)
         ELSE none, LAMBDA f :
    With(IF back # "." /\ f.err = "none"
         THEN AutoHeightChar(back, height, depth, state)
         ELSE none, LAMBDA b :
        IF f.err # "none" THEN Fail(ps, f.err, "AutoHeightChar")
        ELSE IF b.err # "none" THEN Fail(ps, b.err, "AutoHeightChar")
        ELSE R(ps, <<Hlist((IF front # "." THEN <<f.node>> ELSE <<>>)
                           \o middle
                           \o (IF back # "." THEN <<b.node>> ELSE <<>>),
                           TRUE)>>)))))

\* Parser.math
math(ps, toks) ==
    IF Failed(ps) THEN R(ps, <<>>)
    ELSE R(pop_state(ps), <<Hlist(toks, TRUE)>>)

\* Parser.non_math; s is the text with \$ already replaced
non_math(ps, s) ==
    With(chars_of(s, 1, get_state(ps)), LAMBDA symbols :
    IF Failed(ps) THEN R(ps, <<>>)
    ELSE IF symbols.err # "none" THEN Fail(ps, symbols.err, "Char")
    ELSE R(frame_starts(set_font(push_state(ps), "it"), "math"),
           <<Hlist(symbols.nodes, TRUE)>>))

\* Parser.finish
finish(ps, toks) ==
    IF Failed(ps) THEN R(ps, <<>>)
    ELSE With(Hlist(toks, TRUE), LAMBDA expr :
         R([ps EXCEPT !.expr = expr], <<expr>>))


\* What the grammar of Parser.__init__ makes of an input: the tree of the
\* elements that matched.  t is the element, a and b the text it carries,
\* n a number, kids and kids2 the elements inside it.  An element whose t
\* ends in _bad is the Error(...) alternative of that element.
Tok(t, a, b, n, kids, kids2) ==
    [t |-> t, a |-> a, b |-> b, n |-> n, kids |-> kids, kids2 |-> kids2]

\* the tokens of a sequence of elements, in the order of the text
RECURSIVE eval_seq(_, _, _), eval(_, _)
eval_seq(ps, kids, i) ==
    IF i > Len(kids) \/ Failed(ps) THEN R(ps, <<>>)
    ELSE With(eval(ps, kids[i]), LAMBDA r :
         With(eval_seq(r.ps, kids, i + 1), LAMBDA rest :
             R(rest.ps, r.toks \o rest.toks)))

\* one element: the actions of the elements inside it, then its own
eval(ps, tok) ==
    IF Failed(ps) THEN R(ps, <<>>)
    ELSE CASE tok.t = "space"    -> space(ps, tok.a)
      [] tok.t = "hspace"        -> customspace(ps, tok.n)
      [] tok.t = "hspace_bad"    ->
            Fail(ps, "ParseFatalException", "Expected \\hspace{n}")
      [] tok.t = "font"          -> font(ps, tok.a)
      [] tok.t = "op"            -> R(ps, <<ScriptOp(tok.a)>>)
      [] tok.t = "symbol"        -> symbol(ps, tok.a)
      [] tok.t = "c_over_c"      -> char_over_chars(ps, tok.a)
      [] tok.t = "function"      -> function(ps, tok.a)
      [] tok.t = "accent"        ->
            With(eval(ps, tok.kids[1]), LAMBDA r :
            IF Failed(r.ps) THEN R(r.ps, <<>>)
            ELSE accent(r.ps, tok.a, r.toks[1]))
      [] tok.t = "group"         ->
            LET s == start_group(ps, tok.a) IN
            With(eval_seq(s.ps, tok.kids, 1), LAMBDA r :
                IF Failed(r.ps) THEN R(r.ps, <<>>)
                ELSE group(end_group(r.ps).ps, r.toks))
      [] tok.t = "frac"          ->
            With(eval_seq(ps, tok.kids, 1), LAMBDA r :
            IF Failed(r.ps) THEN R(r.ps, <<>>)
            ELSE frac(r.ps, r.toks[1], r.toks[2]))
      [] tok.t = "frac_bad"      ->
            Fail(ps, "ParseFatalException", "Expected \\frac{num}{den}")
      [] tok.t = "sqrt"          ->
            With(eval_seq(ps, tok.kids, 1), LAMBDA root :
            With(eval_seq(root.ps, tok.kids2, 1), LAMBDA body :
                IF Failed(body.ps) THEN R(body.ps, <<>>)
                ELSE sqrt(body.ps, tok.n = 1, root.toks, body.toks[1])))
      [] tok.t = "sqrt_bad"      ->
            Fail(ps, "ParseFatalException", "Expected \\sqrt{value}")
      [] tok.t = "subsuper"      ->
            With(eval_seq(ps, tok.kids, 1), LAMBDA r :
            subsuperscript(r.ps, r.toks))
      [] tok.t = "autodelim"     ->
            With(eval_seq(ps, tok.kids, 1), LAMBDA r :
            auto_sized_delimiter(r.ps, tok.a, r.toks, tok.b))
      [] tok.t = "autodelim_bad" ->
            Fail(ps, "ParseFatalException", "Expected a delimiter")

\* An input: the text before the first '$', then for each '$' that opens
\* math the elements up to where math stops matching (none: the text after
\* the '$' starts no element), whether the closing '$' follows there, and
\* the text after it.
MathPart(items, closed, text) ==
    [items |-> items, closed |-> closed, text |-> text]
Expression(text, maths) == [text |-> text, maths |-> maths]

\* ZeroOrMore(math_delim + math + (math_delim | Error) + non_math), from the
\* i-th '$' on: math needs one element at least, else the repetition ends
\* and StringEnd meets the '$'; after math, anything but '$' is the Error
RECURSIVE expression_from(_, _, _)
expression_from(ps, maths, i) ==
    IF i > Len(maths) \/ Failed(ps) THEN R(ps, <<>>)
    ELSE LET m == maths[i] IN
         With(eval_seq(ps, m.items, 1), LAMBDA r :
         With(math(r.ps, r.toks), LAMBDA h :
         With(non_math(h.ps, m.text), LAMBDA t :
         With(expression_from(t.ps, maths, i + 1), LAMBDA rest :
             IF m.items = <<>>
             THEN Fail(ps, "ParseException", "Expected end of text")
             ELSE IF Failed(h.ps) THEN R(h.ps, <<>>)
             ELSE IF ~m.closed
             THEN Fail(h.ps, "ParseFatalException",
                       "Expected end of math '$'")
             ELSE R(rest.ps, h.toks \o t.toks \o rest.toks)))))

\* self._expression.parseString(s)
parseString(ps, e) ==
    With(non_math(ps, e.text), LAMBDA t :
    With(expression_from(t.ps, e.maths, 1), LAMBDA r :
        finish(r.ps, t.toks \o r.toks).ps))

\* Parser.clear
clear(ps) == ParserObj(<<>>, {}, NoNode, NoExc)

\* Parser.parse(s, fonts_object, fontsize, dpi): the parser afterwards; its
\* err is what the call raises, its expr what the call returns
Parser_parse(ps, s, fonts_object, fontsize, dpi) ==
    LET ps1 == [ps EXCEPT !.err = NoExc, !.opened = <<>>, !.frames = <<>>,
                   !.state_stack = <<State(fonts_object, "default", fontsize,
                                           dpi)>>] IN
    With(parseString(ps1, s), LAMBDA ps2 :
        IF ps2.err.cls = "ParseException"
        THEN [ps2 EXCEPT !.err = [cls |-> "ValueError", msg |-> ps2.err.msg,
                                  located |-> TRUE]]
        ELSE ps2)


\* prs: the Parser object, the last call made on it and that call's
\* arguments
Call(op, parser, s, fonts_object, fontsize, dpi) ==
    [op |-> op, parser |-> parser, s |-> s, fonts_object |-> fonts_object,
     fontsize |-> fontsize, dpi |-> dpi]
PrsInit == Call("init", clear(ParserObj(<<>>, {}, NoNode, NoExc)),
                Expression(<<>>, <<>>), "", 0, 0)


----------------------------------------------------------------------------
(* MathTextParser for an output whose backend is wrapped in               *)
(* MathtextBackendBbox.  self is the instance's _cache together with the   *)
(* class attribute _parser (has_parser: it is not None); a FontProperties  *)
(* is modelled by its size in points, which is also its hash.  A call      *)
(* gives the instance afterwards, what it raised or returned, and which    *)
(* of its steps ran.                                                        *)

cacheKey(s, dpi, prop) == [s |-> s, dpi |-> dpi, prop |-> prop]

\* self._cache.get(cacheKey): the entries under the key, none or one
cache_get(cache, key) == {e \in cache : e.key = key}

\* the assignment as it would be if it stored nothing
cache_store_nothing(cache, key, result) == cache

\* self._cache[cacheKey] = result
cache_store(cache, key, result) ==
    {e \in cache : e.key # key} \cup {[key |-> key, result |-> result]}

\* the font class chosen by rcParams['mathtext.fontset'], "" for none
font_output_of(fontset) ==
    CASE fontset = "cm"     -> "bakoma"
      [] fontset = "stix"   -> "stix"
      [] fontset = "custom" -> "unicode"
      [] OTHER              -> ""

\* The references between the font layer and its backends:
\* font_output.mathtext_backend ("bbox", "real", "None" once cleared, "" while
\* there is no font layer) and whether each backend's fonts_object is the
\* font layer
Links(mathtext_backend, bbox_fonts_object, real_fonts_object) ==
    [mathtext_backend |-> mathtext_backend,
     bbox_fonts_object |-> bbox_fonts_object,
     real_fonts_object |-> real_fonts_object]

NoLinks == Links("", FALSE, FALSE)

\* Fonts.__init__(default_font_prop, mathtext_backend) with the
\* MathtextBackendBbox that MathtextBackendAgg() returns: doubly linked
Fonts_init == Links("bbox", TRUE, FALSE)

\* MathtextBackendBbox._switch_to_real_backend
switch_to_real_backend(l) ==
    [l EXCEPT !.mathtext_backend = "real", !.real_fonts_object = TRUE]

\* the last statements of MathTextParser.parse:
\* font_output.mathtext_backend.fonts_object = None
\* font_output.mathtext_backend = None
fix_cyclical_references(l) ==
    [l EXCEPT !.mathtext_backend = "None",
              !.bbox_fonts_object = IF l.mathtext_backend = "bbox" THEN FALSE
                                    ELSE @,
              !.real_fonts_object = IF l.mathtext_backend = "real" THEN FALSE
                                    ELSE @]

MathTextParser(cache, has_parser, parser) ==
    [cache |-> cache, has_parser |-> has_parser, parser |-> parser]

NoResult == bbox_get_results(Hlist(<<>>, TRUE))

Outcome(self, raised, returned, result, hit, made_fonts, ran_parser, shipped, links) ==
    [self |-> self, raised |-> raised, returned |-> returned,
     result |-> result, hit |-> hit, made_fonts |-> made_fonts,
     ran_parser |-> ran_parser, shipped |-> shipped, links |-> links]

\* MathTextParser.parse(s, dpi, prop) under the given rcParams
MathTextParser_parse(self, fontset, s, dpi, prop) ==
    LET key         == cacheKey(s, dpi, prop)
        found       == cache_get(self.cache, key)
        font_output == font_output_of(fontset)
        fontsize    == prop
        parser0     == IF self.has_parser THEN self.parser
                       ELSE clear(ParserObj(<<>>, {}, NoNode, NoExc)) IN
    IF found # {}
    THEN Outcome(self, NoExc, TRUE, (CHOOSE e \in found : TRUE).result,
                 TRUE, FALSE, FALSE, FALSE, NoLinks)
    ELSE IF font_output = ""
    THEN Outcome(self, Exc("ValueError", "mathtext.fontset"), FALSE,
                 NoResult, FALSE, FALSE, FALSE, FALSE, NoLinks)
    ELSE
    With(Parser_parse(parser0, s, font_output, fontsize, dpi), LAMBDA parser1 :
        IF Failed(parser1)
        THEN Outcome(MathTextParser(self.cache, TRUE, parser1), parser1.err,
                     FALSE, NoResult, FALSE, TRUE, TRUE, FALSE, Fonts_init)
        ELSE
        With(bbox_get_results(parser1.expr), LAMBDA result :
            IF result.err # "none"
            THEN Outcome(MathTextParser(self.cache, TRUE, parser1),
                         Exc(result.err, "ship"), FALSE, NoResult, FALSE, TRUE,
                         TRUE, TRUE,
                         IF result.switched
                         THEN switch_to_real_backend(Fonts_init)
                         ELSE Fonts_init)
            ELSE Outcome(MathTextParser(cache_store(self.cache, key, result),
                                        TRUE, clear(parser1)),
                         NoExc, TRUE, result, FALSE, TRUE, TRUE, TRUE,
                         fix_cyclical_references(
                             switch_to_real_backend(Fonts_init)))))

\* mtp: the MathTextParser, rcParams['mathtext.fontset'], the last call with
\* its key and outcome, and the history of what each key's calls returned
MtpCall(op, key, out, seen, earlier) ==
    [op |-> op, key |-> key, out |-> out, seen |-> seen, earlier |-> earlier]
MtpSelfInit == MathTextParser({}, FALSE, clear(ParserObj(<<>>, {}, NoNode, NoExc)))
MtpInit ==
    [self |-> MtpSelfInit, fontset |-> "cm",
     last |-> MtpCall("init", cacheKey(Expression(<<>>, <<>>), 0, 0),
                      Outcome(MtpSelfInit, NoExc, FALSE, NoResult, FALSE,
                              FALSE, FALSE, FALSE, NoLinks), FALSE, NoResult),
     history |-> {}]

----------------------------------------------------------------------------
(* The workbench: client code building, packing, shrinking and shipping    *)
(* boxes.  wb is the box at hand (kind "Node": none yet), wpacked whether   *)
(* nothing touched it since it was last packed, wlast the last call and    *)
(* wout what the last ship or get_results produced.                        *)

MaxLen == 2
MaxShrinks == 4

FontSize0 == 10 * Unit

CharX == Char("x", "it", FontSize0, BaseDpi)
CharY == Char("y", "it", FontSize0, BaseDpi)
CharF == Char("f", "it", FontSize0, BaseDpi)
\* a centered box set to 8 units, and a rule over a strut
NestedH == hpack(HCentered(<<CharY>>), 8 * Unit, "exactly")
NestedV == Vlist(<<Hrule("it", FontSize0, BaseDpi), Vbox(0, 2 * Unit)>>).box
\* a list narrower than NestedH, as a numerator is narrower than a fraction
NarrowH == Hlist(<<CharX>>, TRUE)

\* The elements the lists are built from.  As Rule's docstring has it, the
\* width is never running in an Hlist, the height and depth never in a Vlist.
HAtoms == {CharX, Glue("fil"), Glue("fill"), Glue("ss"), Kern(-3 * Unit),
           Vrule("it", FontSize0, BaseDpi), NestedH, NestedV}
VAtoms == {CharX, Glue("fil"), Kern(2 * Unit), Vbox(3 * Unit, 0),
           Hrule("it", FontSize0, BaseDpi), NestedH, NarrowH}
SeqsOver(S) == UNION {[1..n -> S] : n \in 0..MaxLen}

\* the (w, m) a pack is called with, beside (the box's own size, 'exactly')
PackArgs == {<<0, "additional">>, <<2500, "additional">>,
             <<-1500, "additional">>}

HasChar(elements) == \E i \in 1..Len(elements) : IsChar(elements[i])

NoOut == [err |-> "none", calls1 |-> <<>>, calls2 |-> <<>>, bbox |-> BboxInit,
          cur_g |-> 0, cur_h |-> 0, canvas |-> [w |-> 0, h |-> 0, d |-> 0]]
\* the last call: its name, the exception it raised, its arguments (w, m),
\* the shrinks since the box was made (k) with its width then (orig),
\* whether the list it packed had a Char as a direct child, and whether the
\* box was as its last pack left it when the call was made
Last(op, err, w, m, k, orig, char_child, was_packed) ==
    [op |-> op, err |-> err, w |-> w, m |-> m, k |-> k, orig |-> orig,
     char_child |-> char_child, was_packed |-> was_packed]

\* wsize: a node that client code shrinks and then grows again: the node,
\* the last call, the node as it was before each shrink, and the number of
\* grow calls since
SizeInit == [op |-> "init", node |-> NodeInit, snaps |-> <<>>, grows |-> 0]

\* wauto: the last AutoHeightChar or AutoWidthChar constructed: its
\* arguments, the alternatives the font layer gave, and the exception or the
\* node that came of it
AutoInit == [op |-> "init", c |-> "", target |-> 0, depth |-> 0, state |-> State("", "", 0, 0), alternatives |-> <<>>, err |-> "none", node |-> NodeInit]

\* the variables of the other specifications, which the workbench leaves alone
wb_others == <<wsize, wauto, fnt, prs, mtp>>

\* fnt: the last call on a font layer with its arguments and what it gave,
\* and what outlives the font layer: StixFonts._size_alternatives, a class
\* attribute, and what the calls so far have shown of the STIX font files
\* (charmaps: for a symbol looked up, the fonts 0..5 that hold it)
FntInit == [op |-> "init", family |-> "", fontname |-> "", sym |-> "",
            env |-> "", glyph |-> "", err |-> "none", built |-> FALSE,
            alternatives |-> <<>>, thickness |-> 0,
            size_alternatives |-> {}, charmaps |-> {}]

WbInit ==
    /\ fnt = FntInit
    /\ prs = PrsInit
    /\ mtp = MtpInit
    /\ wb = NodeInit
    /\ wpacked = FALSE
    /\ wlast = Last("init", "none", 0, "", 0, 0, FALSE, FALSE)
    /\ wout = NoOut
    /\ wsize = SizeInit
    /\ wauto = AutoInit

\* Char(c, state)
MakeChar ==
    \E a \in {CharX, CharY, CharF} :
        /\ wlast.op = "init"
        /\ wb' = a
        /\ wpacked' = FALSE
        /\ wlast' = Last("Char", "none", 0, "", 0, a.width, FALSE, FALSE)
        /\ wout' = NoOut
        /\ UNCHANGED wb_others

\* Hlist(elements)
MakeHlist ==
    \E elements \in SeqsOver(HAtoms) :
        /\ wlast.op = "init"
        /\ wb' = Hlist(elements, TRUE)
        /\ wpacked' = TRUE
        /\ wlast' = Last("Hlist", "none", 0, "additional", 0, wb'.width,
                         HasChar(elements), FALSE)
        /\ wout' = NoOut
        /\ UNCHANGED wb_others

\* Vlist(elements); when the constructor raises there is no new box
MakeVlist ==
    \E elements \in SeqsOver(VAtoms) :
        LET r == Vlist(elements) IN
        /\ wlast.op = "init"
        /\ wb' = IF r.err = "none" THEN r.box ELSE NodeInit
        /\ wpacked' = (r.err = "none")
        /\ wlast' = Last("Vlist", r.err, 0, "additional", 0, wb'.width,
                         HasChar(elements), FALSE)
        /\ wout' = NoOut
        /\ UNCHANGED wb_others

\* Hlist([vlist]), as frac and sqrt put their Vlist in an Hlist
WrapHlist ==
    /\ wb.kind = "Vlist"
    /\ wlast.op \in {"Vlist", "append"}
    /\ wb' = Hlist(<<wb>>, TRUE)
    /\ wpacked' = TRUE
    /\ wlast' = Last("Hlist", "none", 0, "additional", 0, wb'.width,
                     FALSE, FALSE)
    /\ wout' = NoOut
    /\ UNCHANGED wb_others

\* client code appends to list.children; nothing is packed again
AppendChild ==
    \E a \in {CharX} :
        /\ IsList(wb)
        /\ wlast.op \in {"Hlist", "Vlist"}
        /\ wb' = [wb EXCEPT !.children = Append(@, a)]
        /\ wpacked' = FALSE
        /\ wlast' = Last("append", "none", 0, "", wlast.k, wlast.orig,
                         FALSE, wpacked)
        /\ wout' = NoOut
        /\ UNCHANGED wb_others

\* hlist.hpack(w, m)
DoHpack ==
    \E a \in PackArgs \cup {<<wb.width, "exactly">>} :
        /\ wb.kind = "Hlist"
        /\ wb' = hpack(wb, a[1], a[2])
        /\ wpacked' = TRUE
        /\ wlast' = Last("hpack", "none", a[1], a[2], wlast.k, wlast.orig,
                         HasChar(wb.children), wpacked)
        /\ wout' = NoOut
        /\ UNCHANGED wb_others

\* vlist.vpack(h, m, l)
DoVpack ==
    \E a \in PackArgs \cup {<<wb.height, "exactly">>}, l \in {Inf, Unit} :
        /\ wb.kind = "Vlist"
        /\ \E r \in {vpack(wb, a[1], a[2], l)} :
           /\ wb' = r.box
           /\ wpacked' = IF r.err = "none" THEN TRUE ELSE wpacked
           /\ wlast' = Last("vpack", r.err, a[1], a[2], wlast.k, wlast.orig,
                            HasChar(wb.children), wpacked)
        /\ wout' = NoOut
        /\ UNCHANGED wb_others

\* node.shrink()
DoShrink ==
    /\ wb.kind # "Node"
    /\ wlast.op \in {"Char", "Hlist", "Vlist", "append", "shrink"}
    /\ wlast.k < MaxShrinks
    /\ wb' = shrink(wb)
    /\ wpacked' = FALSE
    /\ wlast' = Last("shrink", "none", 0, "", wlast.k + 1, wlast.orig,
                     FALSE, wpacked)
    /\ wout' = NoOut
    /\ UNCHANGED wb_others

\* ship(0, 0, box) on a root Hlist
DoShip ==
    /\ wb.kind = "Hlist"
    /\ wlast.op \notin {"ship", "get_results"}
    /\ \E r \in {ship(0, 0, wb)} :
       /\ wb' = r.box
       /\ wout' = [NoOut EXCEPT !.err = r.st.err, !.calls1 = r.st.calls,
                                !.cur_g = r.cur_g, !.cur_h = r.st.cur_h]
       /\ wlast' = Last("ship", r.st.err, 0, "", wlast.k, wlast.orig,
                        FALSE, wpacked)
    /\ UNCHANGED wpacked
    /\ UNCHANGED wb_others

\* MathtextBackendBbox.get_results(box)
DoGetResults ==
    /\ wb.kind = "Hlist"
    /\ wlast.op \notin {"ship", "get_results"}
    /\ \E r \in {bbox_get_results(wb)} :
       /\ wb' = r.box
       /\ wout' = [NoOut EXCEPT !.err = r.err, !.calls1 = r.calls1,
                                !.calls2 = r.calls2, !.bbox = r.bbox,
                                !.canvas = r.canvas]
       /\ wlast' = Last("get_results", r.err, 0, "", wlast.k, wlast.orig,
                        FALSE, wpacked)
    /\ UNCHANGED wpacked
    /\ UNCHANGED wb_others

WbNext ==
    \/ MakeChar
    \/ MakeHlist
    \/ MakeVlist
    \/ WrapHlist
    \/ AppendChild
    \/ DoHpack
    \/ DoVpack
    \/ DoShrink
    \/ DoShip
    \/ DoGetResults

SpecBox == WbInit /\ [][WbNext]_vars

----------------------------------------------------------------------------
(* Size changes: client code making a node, shrinking it some times and    *)
(* growing it as many times at most, as the parser does with scripts.      *)

AccentHat == Accent("~", "rm", FontSize0, BaseDpi)

\* nodes of every class; some start below or above size level 0, and one
\* list holds a child two levels smaller than itself
SizeNodes ==
    {CharX, AccentHat, Hbox(2 * Unit), Vbox(3 * Unit, Unit),
     Hrule("it", FontSize0, BaseDpi), Kern(-3 * Unit), Glue("fil"),
     NestedH, NestedV,
     [Hlist(<<CharX, CharY>>, TRUE) EXCEPT !.shift_amount = 2 * Unit],
     Hlist(<<shrink(shrink(CharY)), CharX>>, TRUE),
     shrink(CharY), grow(CharF)}

size_others == <<wb, wpacked, wlast, wout, wauto, fnt, prs, mtp>>

\* a node is constructed
SizeMake ==
    \E a \in SizeNodes :
        /\ wsize.op = "init"
        /\ wsize' = [op |-> "make", node |-> a, snaps |-> <<>>, grows |-> 0]
        /\ UNCHANGED size_others

\* node.shrink()
SizeShrink ==
    /\ wsize.op \in {"make", "shrink"}
    /\ Len(wsize.snaps) < MaxShrinks
    /\ wsize' = [wsize EXCEPT !.op = "shrink", !.node = shrink(wsize.node),
                              !.snaps = Append(@, wsize.node)]
    /\ UNCHANGED size_others

\* node.grow()
SizeGrow ==
    /\ wsize.op \in {"shrink", "grow"}
    /\ wsize.grows < Len(wsize.snaps)
    /\ wsize' = [wsize EXCEPT !.op = "grow", !.node = grow(wsize.node),
                              !.grows = @ + 1]
    /\ UNCHANGED size_others

SizeNext == SizeMake \/ SizeShrink \/ SizeGrow

SpecSize == WbInit /\ [][SizeNext]_vars

\* The symbols, fonts, sizes and targets of the automatically sized glyphs:
\* a delimiter and the radical, which have larger cuts, and a letter, which
\* has none; targets below, between, at and above the cuts' sizes
AutoSymbols == {"(", "\\__sqrt__", "x"}
AutoFonts == {"rm", "it"}
AutoFontSizes == {FontSize0, 12 * Unit}
AutoHeights == {2 * Unit, 4 * Unit, 8 * Unit, 14 * Unit, 40 * Unit}
AutoDepths == {0, 2 * Unit, 4 * Unit}
AutoWidths == {Unit, 5 * Unit, 7 * Unit, 30 * Unit}

\* what state.font_output.get_sized_alternatives_for_symbol can give: the
\* family's list, and from StixFonts also the empty list of a character
\* that none of its fonts holds
AutoAlternatives(state, sym) ==
    {get_sized_alternatives_for_symbol(state.font_output, state.font, sym)}
        \cup (IF state.font_output = "stix" THEN {<<>>} ELSE {})

auto_others == <<wb, wpacked, wlast, wout, wsize, fnt, prs, mtp>>

\* AutoHeightChar(c, height, depth, state), constructed once
AutoHeight ==
    \E family \in Families, sym \in AutoSymbols, fontname \in AutoFonts, fontsize \in AutoFontSizes, height \in AutoHeights, depth \in AutoDepths :
      \E alternatives \in AutoAlternatives(State(family, fontname, fontsize, BaseDpi), sym) :
        /\ wauto.op = "init"
        /\ \E r \in {AutoHeightChar_sized(alternatives, height, depth, State(family, fontname, fontsize, BaseDpi))} :
            /\ wauto' = [op |-> "height", c |-> sym, target |-> height + depth, depth |-> depth, state |-> State(family, fontname, fontsize, BaseDpi), alternatives |-> alternatives, err |-> r.err, node |-> r.node]
            /\ UNCHANGED auto_others

\* AutoWidthChar(c, width, state, char_class=Char or Accent)
AutoWidth ==
    \E family \in Families, sym \in AutoSymbols, fontname \in AutoFonts, fontsize \in AutoFontSizes, width \in AutoWidths, char_class \in {"Char", "Accent"} :
      \E alternatives \in AutoAlternatives(State(family, fontname, fontsize, BaseDpi), sym) :
        /\ wauto.op = "init"
        /\ \E r \in {AutoWidthChar_sized(alternatives, width, State(family, fontname, fontsize, BaseDpi), char_class)} :
            /\ wauto' = [op |-> "width", c |-> sym, target |-> width, depth |-> 0, state |-> State(family, fontname, fontsize, BaseDpi), alternatives |-> alternatives, err |-> r.err, node |-> r.node]
            /\ UNCHANGED auto_others

AutoNext == AutoHeight \/ AutoWidth

SpecAuto == WbInit /\ [][AutoNext]_vars

----------------------------------------------------------------------------
(* Properties of the box model *)

\* the Chars that sit directly in an Hlist, anywhere in the tree under p
RECURSIVE HlistChars(_)
HlistCharsOf(children, in_hlist) ==
    [i \in 1..Len(children) |->
        IF IsChar(children[i]) THEN (IF in_hlist THEN 1 ELSE 0)
        ELSE HlistChars(children[i])]
RECURSIVE SumSeq(_, _)
SumSeq(q, i) == IF i > Len(q) THEN 0 ELSE q[i] + SumSeq(q, i + 1)
HlistChars(p) ==
    IF IsList(p) THEN SumSeq(HlistCharsOf(p.children, p.kind = "Hlist"), 1)
    ELSE 0

\* a Vlist with a Char as a direct child, anywhere in the tree under p
RECURSIVE CharInVlist(_)
CharInVlist(p) ==
    /\ IsList(p)
    /\ \/ p.kind = "Vlist" /\ HasChar(p.children)
       \/ \E i \in 1..Len(p.children) : CharInVlist(p.children[i])

GlyphCalls(calls) == {i \in 1..Len(calls) : calls[i].type = "glyph"}

\* C5: a Vlist with a Char as a direct child is never packed or shipped.
\* Vlist(elements) and vpack raise RuntimeError when the list has a Char child
\* (the constructor gives no Vlist, vpack leaves the list unpacked); a ship
\* that returned has met no such Vlist, and a ship draws no more glyphs than
\* there are Chars directly in Hlists.
C5_CharInVlistRaises ==
    /\ (wlast.op = "Vlist" /\ wlast.char_child)
          => (wlast.err = "RuntimeError" /\ wb = NodeInit)
    /\ (wlast.op = "vpack" /\ wlast.char_child)
          => (wlast.err = "RuntimeError" /\ ~wpacked)
    /\ (wlast.op \in {"ship", "get_results"} /\ wlast.err = "none")
          => ~CharInVlist(wb)
    /\ (wlast.op = "ship")
          => Cardinality(GlyphCalls(wout.calls1)) <= HlistChars(wb)

\* a ship that drew a rule of the Vlist and then met the Char in it
C5_Witness ==
    /\ wlast.op = "ship"
    /\ wlast.err = "RuntimeError"
    /\ CharInVlist(wb)
    /\ wout.calls1 # <<>>
    /\ GlyphCalls(wout.calls1) = {}

RECURSIVE Pow(_, _)
Pow(b, e) == IF e = 0 THEN 1 ELSE b * Pow(b, e - 1)

\* the size levels at which shrink still scales: sizes 1 .. NUM_SIZE_LEVELS - 1
ScalingShrinks == NUM_SIZE_LEVELS - 1

Dims(p) == <<p.width, p.height, p.depth, p.glue_set, p.glue_sign, p.glue_order>>

\* C7: hpack(list.width, 'exactly') on an Hlist that is as its last pack left
\* it changes none of width, height, depth, glue_set, glue_sign, glue_order.
C7_HpackIdempotent ==
    [][(/\ wb.kind = "Hlist"
        /\ wpacked
        /\ wlast'.op = "hpack"
        /\ wlast'.m = "exactly"
        /\ wlast'.w = wb.width) => Dims(wb') = Dims(wb)]_vars

\* such a call was made on a list whose glue is set
C7_Witness ==
    /\ wlast.op = "hpack"
    /\ wlast.was_packed
    /\ wlast.m = "exactly"
    /\ wlast.w = wb.width
    /\ wb.glue_sign # 0
    /\ wb.glue_set.n # 0
    /\ Len(wb.children) > 1

\* the natural width of an Hlist and what its pack added to it
NaturalWidth(p) == hpack_loop(p.children, 1, PackStart).x
Surplus(p) == p.width - NaturalWidth(p)

\* C8: after the ship of an Hlist packed with a positive surplus and
\* glue_sign = +1, the stretch hlist_out gave the glue children (cur_g at the
\* end of the loop) is round(surplus) within one unit, and the advance over
\* the list is its width within one unit.
C8_GlueConservation ==
    (/\ wlast.op = "ship"
     /\ wlast.err = "none"
     /\ wlast.was_packed
     /\ wb.glue_sign = 1
     /\ Surplus(wb) > 0)
    => /\ Abs(wout.cur_g - RoundQuot(Surplus(wb), 1)) <= Unit
       /\ Abs(wout.cur_h - wb.width) <= Unit

\* a stretched list with glue of two orders, one of which got nothing
C8_Witness ==
    /\ wlast.op = "ship"
    /\ wlast.err = "none"
    /\ wlast.was_packed
    /\ wb.glue_sign = 1
    /\ Surplus(wb) > Unit
    /\ wout.cur_g > Unit
    /\ \E i \in 1..Len(wb.children) :
          /\ IsGlue(wb.children[i])
          /\ wb.children[i].glue_spec.stretch # 0
          /\ wb.children[i].glue_spec.stretch_order # wb.glue_order

\* the second pass's rectangle of a call lies strictly inside (0, 0)..(w, h)
StrictlyInside(r, w, h) == r.x1 > 0 /\ r.y1 > 0 /\ r.x2 < w /\ r.y2 < h

\* C9: the bbox of the first pass, grown by one unit on each side, strictly
\* contains every glyph ink box and filled rectangle the second pass draws
\* from the origin (-bbox[0], -bbox[1]).
C9_BboxEnvelope ==
    (wlast.op = "get_results" /\ wlast.err = "none") =>
        \A i \in 1..Len(wout.calls2) :
            StrictlyInside(call_box(wout.calls2[i]),
                           wout.bbox.x2 - wout.bbox.x1,
                           wout.bbox.y2 - wout.bbox.y1)

\* a second pass that drew a glyph and a rule
C9_Witness ==
    /\ wlast.op = "get_results"
    /\ wlast.err = "none"
    /\ \E i, j \in 1..Len(wout.calls2) :
          wout.calls2[i].type = "glyph" /\ wout.calls2[j].type = "rect"

----------------------------------------------------------------------------
(* Glyph lookups: every family, logical font, kind of symbol and state of   *)
(* the font files                                                           *)

FontNames == {"default", "rm", "it", "cal", "tt", "sf", "bf"}

\* the kinds of symbol the tables tell apart
SymbolKinds ==
    {Symbol("x", TRUE, FALSE, TRUE, FALSE, TRUE, "cmmi10", FALSE, FALSE, FALSE, FALSE),
     Symbol("A", TRUE, TRUE, TRUE, FALSE, TRUE, "cmmi10", FALSE, FALSE, FALSE, FALSE),
     Symbol("+", TRUE, FALSE, FALSE, FALSE, TRUE, "cmr10", FALSE, FALSE, FALSE, FALSE),
     Symbol("\\u4e2d", TRUE, FALSE, TRUE, FALSE, FALSE, "", FALSE, FALSE, FALSE, FALSE),
     Symbol("\\alpha", FALSE, FALSE, TRUE, FALSE, TRUE, "cmmi10", FALSE, TRUE, TRUE, FALSE),
     Symbol("\\Gamma", FALSE, FALSE, TRUE, TRUE, TRUE, "cmr10", FALSE, TRUE, TRUE, FALSE),
     Symbol("\\sum", FALSE, FALSE, FALSE, FALSE, TRUE, "cmex10", TRUE, TRUE, TRUE, FALSE),
     Symbol("\\int", FALSE, FALSE, FALSE, FALSE, TRUE, "cmex10", TRUE, TRUE, TRUE, TRUE),
     Symbol("\\combiningbreve", FALSE, FALSE, FALSE, FALSE, FALSE, "", FALSE, TRUE, FALSE, FALSE),
     Symbol("\\__sqrt__", FALSE, FALSE, FALSE, FALSE, TRUE, "cmex10", TRUE, FALSE, FALSE, FALSE),
     Symbol("\\widehat", FALSE, FALSE, FALSE, FALSE, FALSE, "", FALSE, FALSE, FALSE, FALSE)}

\* The fonts matplotlib ships (Computer Modern, STIX, the AFM files) hold
\* their substitute glyph; the 'rm' font of the custom set is the user's.
EnvsOf(family) ==
    {e \in [in_charmap : BOOLEAN, in_cm_charmap : BOOLEAN, has_dummy : BOOLEAN] :
        family # "unicode" => e.has_dummy}

\* the grammar's symbol: one character of the regex, or \name with name in tex2uni
GrammarSymbol(sym) == sym.single \/ sym.in_tex2uni

fnt_others == <<wb, wpacked, wlast, wout, wsize, wauto, prs, mtp>>

\* font_output.get_metrics(font, sym, fontsize, dpi) on a new font layer
FontsGetMetrics ==
    \E family \in Families, fontname \in FontNames, sym \in SymbolKinds :
      \E env \in EnvsOf(family) :
        LET g == get_glyph(family, fontname, sym, env) IN
        /\ fnt.op = "init"
        /\ fnt' = [fnt EXCEPT !.op = "get_metrics", !.family = family,
                   !.fontname = fontname, !.sym = sym, !.env = env,
                   !.glyph = g, !.err = g.raised, !.built = FALSE]
        /\ UNCHANGED fnt_others

\* Parser.symbol on a symbol the grammar matched
ParserSymbol ==
    \E family \in Families, fontname \in FontNames,
       sym \in {k \in SymbolKinds : GrammarSymbol(k)} :
      \E env \in EnvsOf(family) :
        LET r == symbol_char(family, fontname, sym, env) IN
        /\ fnt.op = "init"
        /\ fnt' = [fnt EXCEPT !.op = "symbol", !.family = family,
                   !.fontname = fontname, !.sym = sym, !.env = env,
                   !.glyph = r.glyph, !.err = r.err, !.built = r.built]
        /\ UNCHANGED fnt_others

\* font_output.destroy(): the glyph cache is dropped with the font layer
FontsDestroy ==
    /\ fnt.op # "init"
    /\ fnt' = [FntInit EXCEPT !.size_alternatives = fnt.size_alternatives,
                              !.charmaps = fnt.charmaps]
    /\ UNCHANGED fnt_others

\* the symbols asked for their sized alternatives, and the fonts 0..5 a
\* STIX font file set may hold a symbol in: none, STIXGeneral alone, or
\* STIXGeneral and the first two size fonts
SizedSymbols == {k \in SymbolKinds : k.name \in {"+", "\\u4e2d", "\\widehat"}}
SizedFontNames == {"rm", "it", "bf"}
StixHeldChoices == {{}, {0}, {0, 1, 2}}

\* font_output.get_sized_alternatives_for_symbol(fontname, sym) on a new
\* font layer; the STIX files hold a symbol where an earlier call found it
FontsGetSizedAlternatives ==
    \E family \in Families, fontname \in SizedFontNames,
       sym \in SizedSymbols, held \in StixHeldChoices :
      LET known == {e \in fnt.charmaps : e.sym = sym.name} IN
      \E r \in {Fonts_get_sized_alternatives_for_symbol(
                    family, fnt.size_alternatives, fontname, sym, held)} :
        /\ fnt.op = "init"
        /\ IF family = "stix" /\ (sym.single \/ sym.in_tex2uni)
           THEN \A e \in known : e.held = held
           ELSE held = {}
        /\ fnt' = [fnt EXCEPT
                     !.op = "get_sized_alternatives", !.family = family,
                     !.fontname = fontname, !.sym = sym, !.env = held,
                     !.alternatives = r.alternatives,
                     !.size_alternatives = r.size_alternatives,
                     !.charmaps = IF family = "stix"
                                     /\ (sym.single \/ sym.in_tex2uni)
                                  THEN @ \cup {[sym |-> sym.name,
                                                held |-> held]}
                                  ELSE @]
        /\ UNCHANGED fnt_others

\* the UnderlineThickness entries an AFM file may carry, and the sizes asked
AfmUnderlineThicknesses == {50, 100}
UnderlineFontSizes == {10 * Unit, 12 * Unit, 24 * Unit}

\* font_output.get_underline_thickness(font, fontsize, dpi) on a new font
\* layer
FontsGetUnderlineThickness ==
    \E family \in Families, fontname \in FontNames,
       fontsize \in UnderlineFontSizes,
       underline_thickness \in AfmUnderlineThicknesses :
        /\ fnt.op = "init"
        /\ family # "ps" => underline_thickness = 50
        /\ fnt' = [fnt EXCEPT
                     !.op = "get_underline_thickness", !.family = family,
                     !.fontname = fontname, !.env = underline_thickness,
                     !.thickness = Fonts_get_underline_thickness(
                                      family, fontname, underline_thickness,
                                      fontsize, BaseDpi)]
        /\ UNCHANGED fnt_others

FntNext ==
    \/ FontsGetMetrics
    \/ ParserSymbol
    \/ FontsGetSizedAlternatives
    \/ FontsGetUnderlineThickness
    \/ FontsDestroy

SpecFonts == WbInit /\ [][FntNext]_vars

\* the symbol has no glyph of its own in the font the lookup selected
GlyphMissing == fnt.op = "symbol" /\ ~fnt.glyph.found

\* STIX has no calligraphic glyph but for the capital letters
StixCalNotCapital ==
    fnt.family = "stix" /\ fnt.fontname = "cal" /\ ~fnt.sym.upper_az

\* the custom set's 'rm' font is missing the currency sign
NoCurrencySign == fnt.family = "unicode" /\ ~fnt.env.has_dummy

\* C4 (as the code has it): when a symbol of the grammar has no glyph in the
\* selected font, the lookup warns and gives a substitute glyph, the Char is
\* built and Parser.symbol raises nothing - except in STIX's 'cal' font,
\* where a symbol that is not one capital letter is the parse error 'Unknown
\* symbol', and in the custom set without the Computer Modern fallback when
\* its 'rm' font has no currency sign.
C4_SubstituteOrUnknownSymbol ==
    /\ (GlyphMissing /\ ~StixCalNotCapital /\ ~NoCurrencySign)
          => (/\ fnt.err = "none"
              /\ fnt.built
              /\ fnt.glyph.warnings >= 1
              /\ fnt.glyph.substitute)
    /\ (fnt.op = "symbol" /\ StixCalNotCapital)
          => (fnt.err = "ParseFatalException" /\ ~fnt.built)

\* a glyph missing from a Unicode font and taken from Computer Modern
C4_Witness ==
    /\ GlyphMissing
    /\ fnt.family = "unicode_cm"
    /\ fnt.fontname = "cal"
    /\ fnt.glyph.substitute
    /\ fnt.glyph.found = FALSE
    /\ fnt.glyph.warnings >= 2
    /\ fnt.built

\* C4 as stated: for every family and font a missing glyph gives a warning
\* and a substitute, and nothing is raised
C4_AsStated ==
    GlyphMissing =>
        (fnt.err = "none" /\ fnt.built /\ fnt.glyph.warnings >= 1)

----------------------------------------------------------------------------
(* The parser at work: client code calling Parser.parse on the inputs      *)
(* below and Parser.clear after it, as MathTextParser.parse does.          *)

Sym(c)      == Tok("symbol", c, "", 0, <<>>, <<>>)
Op(o)       == Tok("op", o, "", 0, <<>>, <<>>)
Space(a)    == Tok("space", a, "", 0, <<>>, <<>>)
HSpace(n)   == Tok("hspace", "", "", n, <<>>, <<>>)
Font(a)     == Tok("font", a, "", 0, <<>>, <<>>)
Func(a)     == Tok("function", a, "", 0, <<>>, <<>>)
COverC(a)   == Tok("c_over_c", a, "", 0, <<>>, <<>>)
Acc(a, p)   == Tok("accent", a, "", 0, <<p>>, <<>>)
Grp(f, items) == Tok("group", f, "", 0, items, <<>>)
Frac(num, den) == Tok("frac", "", "", 0, <<num, den>>, <<>>)
Sqrt(body)  == Tok("sqrt", "", "", 0, <<>>, <<body>>)
SqrtN(root, body) == Tok("sqrt", "", "", 1, root, <<body>>)
Delim(front, items, back) == Tok("autodelim", front, back, 0, items, <<>>)
Bad(t)      == Tok(t, "", "", 0, <<>>, <<>>)
\* subsuper: a placeable alone, or a nucleus (or none) and its scripts
SS(kids)    == Tok("subsuper", "", "", 0, kids, <<>>)
P(c)        == SS(<<Sym(c)>>)

\* $...$ alone, closed
M(items) == Expression(<<>>, <<MathPart(items, TRUE, <<>>)>>)

GrpX == Grp("", <<P("x")>>)
GrpY == Grp("", <<P("y")>>)

ScriptInputs ==
    {M(<<P("x")>>),
     M(<<SS(<<Sym("x"), Op("_"), Sym("a")>>)>>),
     M(<<SS(<<Sym("x"), Op("^"), Sym("a")>>)>>),
     M(<<SS(<<Sym("x"), Op("_"), Sym("a"), Op("^"), Sym("1")>>)>>),
     M(<<SS(<<Sym("x"), Op("^"), Sym("a"), Op("_"), Sym("1")>>)>>),
     M(<<SS(<<Sym("x"), Op("_"), Sym("a"), Op("_"), Sym("1")>>)>>),
     M(<<SS(<<Sym("x"), Op("^"), Sym("a"), Op("^"), Sym("1")>>)>>),
     M(<<SS(<<Op("_"), Sym("a")>>)>>),
     M(<<SS(<<Op("^"), Sym("a")>>)>>),
     M(<<SS(<<Op("_"), Sym("a"), Op("^"), Sym("1")>>)>>),
     M(<<SS(<<Sym("x"), Op("_"), Sym("a"), Op("^"), Sym("1"), Op("_"),
             Sym("2")>>)>>),
     M(<<SS(<<Sym("x"), Op("_"), Sym("a"), Op("_"), Sym("1"), Op("_"),
             Sym("2")>>)>>),
     M(<<SS(<<Op("_"), Sym("a"), Op("^"), Sym("1"), Op("_"), Sym("2")>>)>>),
     M(<<P("y"), SS(<<GrpX, Op("_"), Sym("a"), Op("_"), GrpY>>)>>),
     M(<<P("y"), SS(<<Sym("\\sum"), Op("^"), Sym("a"), Op("^"), Sym("1")>>)>>),
     M(<<SS(<<Sym("\\sum"), Op("_"), Sym("a"), Op("^"), Sym("1")>>)>>),
     M(<<SS(<<Sym("\\sum"), Op("^"), Sym("1")>>)>>),
     M(<<SS(<<Func("lim"), Op("_"), Sym("x")>>)>>),
     M(<<SS(<<Func("sin"), Op("^"), Sym("2")>>), P("x")>>),
     M(<<SS(<<Sym("\\int"), Op("_"), Sym("a"), Op("^"), Sym("1")>>)>>),
     M(<<SS(<<Sym("\\int"), Op("_"), Sym("a")>>)>>),
     M(<<SS(<<GrpX, Op("^"), GrpY>>)>>),
     M(<<SS(<<Sym("x"), Op("_"), Grp("", <<Space("\\!")>>)>>)>>)}

SpaceInputs ==
    {M(<<Space("\\!")>>),
     M(<<Space("\\,")>>),
     M(<<Space("\\quad"), P("x")>>),
     M(<<P("x"), Space("\\!")>>),
     M(<<Space("\\!"), Space("\\!"), P("x")>>),
     M(<<HSpace(-2000)>>),
     M(<<HSpace(500), P("x")>>),
     M(<<P("x"), HSpace(-100)>>),
     M(<<Bad("hspace_bad")>>),
     M(<<P("x"), P("="), P("y")>>),
     M(<<P("x"), P(","), P("y")>>),
     M(<<P("x"), P("+"), P("1")>>)}

FontInputs ==
    {M(<<Font("rm"), P("x")>>),
     M(<<Font("rm")>>),
     M(<<Font("cal"), P("A")>>),
     M(<<Font("cal"), P("x")>>),
     M(<<Font("cal"), Space("\\,")>>),
     M(<<Font("bf"), P("x"), Font("it"), P("y")>>),
     M(<<SS(<<GrpX>>)>>),
     M(<<SS(<<Grp("", <<>>)>>)>>),
     M(<<SS(<<Grp("rm", <<P("x")>>)>>), P("y")>>),
     M(<<SS(<<Grp("", <<Font("bf"), P("x")>>)>>), Space("\\,")>>),
     M(<<SS(<<Func("sin")>>), P("x")>>),
     M(<<SS(<<COverC("AA")>>)>>),
     M(<<SS(<<Acc("hat", Sym("x"))>>)>>),
     M(<<SS(<<Acc("widehat", Grp("", <<P("x"), P("y")>>))>>)>>),
     M(<<SS(<<Acc("bar", GrpX), Op("^"), Sym("2")>>)>>)}

FracX == Frac(GrpX, GrpY)

BuiltInputs ==
    {M(<<SS(<<FracX>>)>>),
     M(<<SS(<<Frac(Grp("", <<P("1")>>), Grp("", <<SS(<<FracX>>)>>))>>)>>),
     M(<<SS(<<Frac(Grp("", <<>>), Grp("", <<>>))>>)>>),
     M(<<SS(<<Bad("frac_bad")>>)>>),
     M(<<P("x"), SS(<<Bad("frac_bad")>>)>>),
     M(<<SS(<<Sqrt(GrpX)>>)>>),
     M(<<SS(<<SqrtN(<<Sym("2")>>, GrpX)>>)>>),
     M(<<SS(<<SqrtN(<<Font("rm"), Sym("2")>>, Grp("", <<SS(<<FracX>>)>>))>>)>>),
     M(<<SS(<<Sqrt(Grp("", <<>>))>>)>>),
     M(<<SS(<<Bad("sqrt_bad")>>)>>),
     M(<<SS(<<FracX, Op("^"), Sym("2")>>)>>),
     M(<<Font("cal"), SS(<<FracX>>)>>)}

DelimInputs ==
    {M(<<Delim("(", <<P("x")>>, ")")>>),
     M(<<Delim("(", <<P("x"), P("y")>>, ")")>>),
     M(<<Delim("(", <<SS(<<FracX>>)>>, ")")>>),
     M(<<Delim("(", <<SS(<<Sym("x"), Op("^"), Sym("2")>>)>>, ")")>>),
     M(<<Delim("(", <<Space("\\,")>>, ")")>>),
     M(<<Delim("(", <<P("x"), Space("\\,"), P("y")>>, ")")>>),
     M(<<Delim("(", <<HSpace(500)>>, ")")>>),
     M(<<Delim("(", <<Font("rm")>>, ")")>>),
     M(<<Delim("(", <<Font("rm"), Font("it")>>, ")")>>),
     M(<<Delim("(", <<Font("rm"), P("x")>>, ")")>>),
     M(<<Delim(".", <<P("x")>>, ")")>>),
     M(<<Delim("|", <<P("x")>>, "|")>>),
     M(<<Delim("(", <<Delim("(", <<P("x")>>, ")")>>, ")")>>),
     M(<<Delim("(", <<SS(<<Grp("", <<>>)>>)>>, ")")>>),
     M(<<Bad("autodelim_bad")>>),
     M(<<P("x"), Bad("autodelim_bad")>>)}

\* a$\rm x$b${\mathbf{\tt y}z}w$c
TwoMaths ==
    Expression(<<"a">>,
               <<MathPart(<<Font("rm"), P("x")>>, TRUE, <<"b">>),
                 MathPart(<<SS(<<Grp("", <<SS(<<Grp("bf", <<Font("tt"),
                                                           P("y")>>)>>),
                                         P("z")>>)>>),
                            P("w")>>, TRUE, <<"c">>)>>)

TextInputs ==
    {Expression(<<>>, <<>>),
     Expression(<<"a">>, <<>>),
     Expression(<<"a", " ", "x">>, <<>>),
     Expression(<<"a">>, <<MathPart(<<P("x")>>, TRUE, <<>>)>>),
     Expression(<<"a">>, <<MathPart(<<P("x")>>, TRUE, <<"y">>)>>),
     Expression(<<"a">>, <<MathPart(<<P("x")>>, TRUE, <<"f">>),
                           MathPart(<<P("y")>>, TRUE, <<>>)>>),
     Expression(<<>>, <<MathPart(<<Space("\\!")>>, TRUE, <<>>),
                        MathPart(<<Space("\\!")>>, TRUE, <<>>)>>),
     Expression(<<>>, <<MathPart(<<>>, FALSE, <<>>)>>),
     Expression(<<"a">>, <<MathPart(<<>>, FALSE, <<>>)>>),
     Expression(<<>>, <<MathPart(<<P("x")>>, FALSE, <<>>)>>),
     Expression(<<"a">>, <<MathPart(<<P("x"), P("y")>>, FALSE, <<>>)>>),
     Expression(<<>>, <<MathPart(<<P("x")>>, TRUE, <<>>),
                        MathPart(<<>>, FALSE, <<>>)>>),
     Expression(<<>>, <<MathPart(<<P("x")>>, TRUE, <<"a">>),
                        MathPart(<<P("y")>>, FALSE, <<>>)>>),
     TwoMaths}

Inputs == ScriptInputs \cup SpaceInputs \cup FontInputs \cup BuiltInputs
              \cup DelimInputs \cup TextInputs

\* the fonts_object, fontsize and dpi that MathTextParser.parse passes
ParseFamilies == {"bakoma", "stix"}
ParseFontSizes == {10 * Unit, 12 * Unit}

prs_others == <<wb, wpacked, wlast, wout, wsize, wauto, fnt, mtp>>

\* Parser.parse on a cleared parser
ParserParse ==
    /\ prs.op \in {"init", "clear"}
    /\ \E s \in Inputs, fonts_object \in ParseFamilies,
          fontsize \in ParseFontSizes :
          prs' = Call("parse",
                      Parser_parse(prs.parser, s, fonts_object, fontsize,
                                   BaseDpi),
                      s, fonts_object, fontsize, BaseDpi)
    /\ UNCHANGED prs_others

\* Parser.clear
ParserClear ==
    /\ prs.op = "parse"
    /\ prs' = Call("clear", clear(prs.parser), Expression(<<>>, <<>>), "",
                   0, 0)
    /\ UNCHANGED prs_others

PrsNext == ParserParse \/ ParserClear

SpecParse == WbInit /\ [][PrsNext]_vars

----------------------------------------------------------------------------
(* MathTextParser at work: client code calling parse with a few texts,     *)
(* resolutions and font properties, and changing rcParams between calls.   *)

CacheTexts ==
    {M(<<P("x")>>),
     M(<<SS(<<FracX>>), Space("\\!")>>),
     M(<<SS(<<Sym("x"), Op("_"), Sym("a"), Op("_"), Sym("1")>>)>>),
     M(<<Space("\\,"), SS(<<Sym("x"), Op("_"), Sym("a"), Op("_"), Sym("1")>>)>>)}
CacheDpis == {BaseDpi, 100}
CacheProps == {10 * Unit}
Fontsets == {"cm", "stix", "bogus"}

mtp_others == <<wb, wpacked, wlast, wout, wsize, wauto, fnt, prs>>

\* parser.parse(s, dpi, prop)
MathTextParserParse ==
    /\ \E s \in CacheTexts, dpi \in CacheDpis, prop \in CacheProps :
        \E out \in {MathTextParser_parse(mtp.self, mtp.fontset, s, dpi, prop)} :
          LET key  == cacheKey(s, dpi, prop)
              past == {e \in mtp.history : e.key = key}
          IN  mtp' = [mtp EXCEPT
                        !.self = out.self,
                        !.last = MtpCall("parse", key, out, past # {},
                                         IF past # {}
                                         THEN (CHOOSE e \in past : TRUE).result
                                         ELSE NoResult),
                        !.history = IF out.returned /\ past = {}
                                    THEN @ \cup {[key |-> key,
                                                  result |-> out.result,
                                                  fontset |-> mtp.fontset]}
                                    ELSE @]
    /\ UNCHANGED mtp_others

\* rcParams['mathtext.fontset'] = fontset
SetFontset ==
    /\ \E fontset \in Fontsets :
          /\ fontset # mtp.fontset
          /\ mtp' = [mtp EXCEPT !.fontset = fontset]
    /\ UNCHANGED mtp_others

MtpNext == MathTextParserParse \/ SetFontset

SpecCache == WbInit /\ [][MtpNext]_vars

----------------------------------------------------------------------------
(* Properties of Parser.parse *)

BadElements == {"hspace_bad", "frac_bad", "sqrt_bad", "autodelim_bad"}

\* the element and all inside it matched without an Error(...) alternative
RECURSIVE Matches(_), AllMatch(_, _)
AllMatch(kids, i) ==
    IF i > Len(kids) THEN TRUE
    ELSE Matches(kids[i]) /\ AllMatch(kids, i + 1)
Matches(tok) ==
    /\ tok.t \notin BadElements
    /\ AllMatch(tok.kids, 1)
    /\ AllMatch(tok.kids2, 1)

\* the input matches the grammar: every '$' opens math of one element at
\* least, made of matching elements, and is closed
MatchesGrammar(e) ==
    \A i \in 1..Len(e.maths) :
        /\ e.maths[i].items # <<>>
        /\ AllMatch(e.maths[i].items, 1)
        /\ e.maths[i].closed

\* C1 as stated: for every input that matches the grammar, Parser.parse
\* returns a root Hlist and raises no exception of any kind
C1_AsStated ==
    (prs.op = "parse" /\ MatchesGrammar(prs.s))
        => (prs.parser.err.cls = "none" /\ prs.parser.expr.kind = "Hlist")

\* C2 as stated: every parse failure leaves Parser.parse as the ValueError
\* that carries the input line, the caret and the message, and no tree is
\* returned
C2_AsStated ==
    (prs.op = "parse" /\ Failed(prs.parser))
        => (/\ prs.parser.err.cls = "ValueError"
            /\ prs.parser.err.located
            /\ prs.parser.expr = NoNode)

Returned == prs.op = "parse" /\ ~Failed(prs.parser)

RECURSIVE SumWidths(_, _)
SumWidths(children, i) ==
    IF i > Len(children) THEN 0
    ELSE children[i].width + SumWidths(children, i + 1)

\* C10: the root Hlist of every expression that parses has height >= 0 and
\* depth >= 0, and its width is the sum of the widths of its children,
\* whatever their sign
C10_HeightDepthNonNegative ==
    Returned =>
        (/\ prs.parser.expr.height >= 0
         /\ prs.parser.expr.depth >= 0
         /\ prs.parser.expr.width = SumWidths(prs.parser.expr.children, 1))

\* math that is one negative space, parsed: the root is narrower than nothing
C10_Witness ==
    /\ Returned
    /\ Len(prs.s.maths) = 1
    /\ prs.s.maths[1].items = <<Space("\\!")>>
    /\ prs.parser.expr.width < 0
    /\ prs.parser.expr.height = 0

\* C10 as stated: the root Hlist of every expression that parses has
\* width >= 0, height >= 0 and depth >= 0
C10_AsStated ==
    Returned =>
        (/\ prs.parser.expr.width >= 0
         /\ prs.parser.expr.height >= 0
         /\ prs.parser.expr.depth >= 0)

----------------------------------------------------------------------------
(* Properties of MathTextParser.parse *)

\* C3: a parse call whose arguments an earlier call on the instance returned
\* a result for returns that same result, answered from _cache: no font
\* layer is created, the parser does not run and no box is shipped
C3_CacheDeterminism ==
    (mtp.last.op = "parse" /\ mtp.last.seen)
        => (/\ mtp.last.out.returned
            /\ mtp.last.out.hit
            /\ mtp.last.out.result = mtp.last.earlier
            /\ ~mtp.last.out.made_fonts
            /\ ~mtp.last.out.ran_parser
            /\ ~mtp.last.out.shipped)

\* a second call for a fraction, answered with the first call's canvas
C3_Witness ==
    /\ mtp.last.op = "parse"
    /\ mtp.last.seen
    /\ mtp.last.out.hit
    /\ mtp.last.key.s = M(<<SS(<<FracX>>), Space("\\!")>>)
    /\ mtp.last.out.result.canvas.w > 0
    /\ mtp.last.out.result = mtp.last.earlier

----------------------------------------------------------------------------
(* Properties of the parser's state stack *)

\* the Chars directly inside a list
CharsIn(p) == {i \in 1..Len(p.children) : IsChar(p.children[i])}

\* C12: every frame the parser has closed (a braced group, with or without
\* \mathXX, a function name, a math segment) leaves the current font,
\* fontsize and dpi as they were immediately before it opened, whatever
\* the font was when it closed; every math segment starts in 'it'; and
\* every text outside math is set in 'default', before and after any math
C12_FramesScoped ==
    prs.op = "parse" =>
        /\ \A i \in 1..Len(prs.parser.frames) :
              LET f == prs.parser.frames[i] IN
              /\ f.after = f.before
              /\ f.kind = "math" =>
                    (f.start.font = "it" /\ f.before.font = "default")
        /\ \A i \in 1..Len(prs.parser.opened) :
              LET o == prs.parser.opened[i] IN
              o.kind = "math" =>
                    (o.start.font = "it" /\ o.before.font = "default")
        /\ ~Failed(prs.parser) =>
              \A i \in 1..Len(prs.parser.expr.children) :
                 LET h == prs.parser.expr.children[i] IN
                 i % 2 = 1 => \A j \in CharsIn(h) :
                                 h.children[j].font = "default"

\* a$\rm x$b${\mathbf{\tt y}z}w$c is parsed: the first math segment closes
\* in 'rm', the \mathbf group in 'tt', and the text after each is 'default'
C12_Witness ==
    /\ prs.op = "parse"
    /\ prs.s = TwoMaths
    /\ ~Failed(prs.parser)
    /\ \E i, j, k \in 1..Len(prs.parser.frames) :
          /\ i < j /\ j < k
          /\ prs.parser.frames[i].kind = "math"
          /\ prs.parser.frames[i].last.font = "rm"
          /\ prs.parser.frames[j].kind = "group"
          /\ prs.parser.frames[j].start.font = "bf"
          /\ prs.parser.frames[j].last.font = "tt"
          /\ prs.parser.frames[j].after.font = "it"
          /\ prs.parser.frames[k].kind = "math"
          /\ prs.parser.frames[k].last.font = "it"
    /\ Len(prs.parser.expr.children) = 5
    /\ CharsIn(prs.parser.expr.children[3]) # {}
    /\ CharsIn(prs.parser.expr.children[5]) # {}

\* the input's first script sequence (a nucleus or none, then scripts), when
\* nothing but single symbols stands before it in the first math segment
LeadingScripts ==
    IF prs.s.maths = <<>> THEN <<>>
    ELSE LET items == prs.s.maths[1].items
             at    == {k \in 1..Len(items) :
                          /\ items[k].t = "subsuper"
                          /\ Len(items[k].kids) > 1
                          /\ \A j \in 1..(k - 1) :
                                /\ items[j].t = "subsuper"
                                /\ Len(items[j].kids) = 1
                                /\ items[j].kids[1].t = "symbol"}
         IN  IF at = {} THEN <<>>
             ELSE items[CHOOSE k \in at : TRUE].kids

\* C13: a nucleus with exactly two scripts under the same operator makes
\* subsuperscript raise 'Double subscript' ('_') or 'Double superscript'
\* ('^'), and a script sequence of more than five tokens makes it raise
\* 'sequence is too long'; the parse then ends with that error and no
\* layout node is set
C13_ScriptErrors ==
    LET k == LeadingScripts IN
    (prs.op = "parse" /\ Len(k) >= 5) =>
        /\ (Len(k) = 5 /\ k[2].a = "_" /\ k[4].a = "_") =>
              (/\ prs.parser.err.cls = "ParseFatalException"
               /\ prs.parser.err.msg = "Double subscript"
               /\ prs.parser.expr = NoNode)
        /\ (Len(k) = 5 /\ k[2].a = "^" /\ k[4].a = "^") =>
              (/\ prs.parser.err.cls = "ParseFatalException"
               /\ prs.parser.err.msg = "Double superscript"
               /\ prs.parser.expr = NoNode)
        /\ Len(k) > 5 =>
              (/\ prs.parser.err.cls = "ParseFatalException"
               /\ prs.parser.err.msg =
                      "Subscript/superscript sequence is too long"
               /\ prs.parser.expr = NoNode)

\* $y{x}_a_{y}$: the second element repeats '_' after a braced nucleus
C13_Witness ==
    /\ prs.op = "parse"
    /\ prs.s = M(<<P("y"), SS(<<GrpX, Op("_"), Sym("a"), Op("_"), GrpY>>)>>)
    /\ Len(LeadingScripts) = 5
    /\ prs.parser.err.msg = "Double subscript"
    /\ prs.parser.expr = NoNode

----------------------------------------------------------------------------
(* Properties of the sized alternatives *)

\* the family has pre-drawn size variants of the symbol asked for: a
\* _size_alternatives entry in Computer Modern, a glyph in one of the STIX
\* size fonts 1..5
HasSizeVariants ==
    CASE fnt.family \in {"bakoma", "unicode_cm"} ->
            Bakoma_size_alternatives(fnt.sym.name) # <<>>
      [] fnt.family = "stix" -> fnt.env \cap (1..5) # {}
      [] OTHER -> FALSE

\* C14: every call of get_sized_alternatives_for_symbol, the first and the
\* later ones, returns a non-empty sequence, and exactly <<(font, symbol)>>
\* when the family has no size variant of the symbol
C14_AsStated ==
    fnt.op = "get_sized_alternatives" =>
        /\ fnt.alternatives # <<>>
        /\ ~HasSizeVariants =>
              fnt.alternatives = <<Alt(fnt.fontname, fnt.sym.name)>>

----------------------------------------------------------------------------
(* Properties of shrink and grow *)

\* what the multiplications by 0.7 and 1 / 0.7 may lose to rounding
Rounding == 4 * MaxShrinks
Near(a, b) == IF IsInf(a) \/ IsInf(b) THEN a = b ELSE Abs(a - b) <= Rounding

\* the two nodes agree, up to rounding, in size level, width, height, depth,
\* fontsize, shift_amount and glue_set, and so do their children
RECURSIVE Restored(_, _)
Restored(a, b) ==
    /\ a.kind = b.kind
    /\ a.size = b.size
    /\ Near(a.width, b.width)
    /\ Near(a.height, b.height)
    /\ Near(a.depth, b.depth)
    /\ Near(a.fontsize, b.fontsize)
    /\ Near(a.shift_amount, b.shift_amount)
    /\ a.glue_set.n * b.glue_set.d = b.glue_set.n * a.glue_set.d
    /\ Near(a.glue_spec.width, b.glue_spec.width)
    /\ Len(a.children) = Len(b.children)
    /\ \A i \in 1..Len(a.children) : Restored(a.children[i], b.children[i])

\* the highest size level in the tree
RECURSIVE MaxLevel(_)
MaxLevel(p) ==
    IF p.children = <<>> THEN p.size
    ELSE LET m == CHOOSE i \in 1..Len(p.children) :
                      \A j \in 1..Len(p.children) :
                          MaxLevel(p.children[j]) <= MaxLevel(p.children[i])
         IN  Max(p.size, MaxLevel(p.children[m]))

\* the node as it was before the shrinks that the grows so far answer
Before == wsize.snaps[Len(wsize.snaps) - wsize.grows + 1]

\* C16 (as the code has it): shrinks followed by as many grows restore size
\* level, width, height, depth, fontsize, shift_amount and glue_set of the
\* node and its children, up to rounding, provided no node of the tree
\* reached size level NUM_SIZE_LEVELS in the shrinks
C16_GrowInvertsScalingShrinks ==
    (wsize.grows >= 1 /\ MaxLevel(wsize.node) + wsize.grows < NUM_SIZE_LEVELS)
        => Restored(wsize.node, Before)

\* a centered box set to 8 units, shrunk three times and grown three times
C16_Witness ==
    /\ wsize.op = "grow"
    /\ Len(wsize.snaps) = 3
    /\ wsize.grows = 3
    /\ wsize.snaps[1] = NestedH
    /\ wsize.snaps[3].width < wsize.snaps[2].width
    /\ wsize.snaps[2].width < wsize.snaps[1].width
    /\ wsize.node.size = 0
    /\ Restored(wsize.node, NestedH)

\* C16 as stated: for every node and every starting level, n shrinks
\* followed by n grows restore the node
C16_AsStated ==
    wsize.grows >= 1 => Restored(wsize.node, Before)

\* the Char as its class's _update_metrics would make it now
Rederived(p) ==
    IF p.kind = "Accent" THEN Accent_update_metrics(p)
    ELSE Char_update_metrics(p)

\* C17: after construction and after every shrink and grow, a Char's cached
\* metrics (the advance get_kerning uses, the slanted flag) and its width,
\* height and depth are what the font layer gives for its current font, c,
\* fontsize and dpi
C17_AsStated ==
    (wsize.op # "init" /\ IsChar(wsize.node)) =>
        LET now == Rederived(wsize.node) IN
        /\ Near(wsize.node.metrics.advance, now.metrics.advance)
        /\ wsize.node.metrics.slanted = now.metrics.slanted
        /\ Near(wsize.node.width, now.width)
        /\ Near(wsize.node.height, now.height)
        /\ Near(wsize.node.depth, now.depth)

\* C15: in every family, the AFM fonts included, and for every font and
\* font size get_underline_thickness returns one device unit at least
C15_AsStated ==
    fnt.op = "get_underline_thickness" => fnt.thickness >= Unit

\* the height plus depth of the i-th alternative's glyph at the font size
\* AutoHeightChar was called with
AutoSizeAt(i) ==
    LET alt == wauto.alternatives[i]
        g   == Char(alt.sym, alt.fontname, wauto.state.fontsize, wauto.state.dpi)
    IN  g.height + g.depth
\* the alternatives that reach the target, and the one the walk in table
\* order ends on: the first of them, or the last of the table
AutoReaching == {i \in 1..Len(wauto.alternatives) : AutoSizeAt(i) >= wauto.target}
AutoChosen ==
    IF AutoReaching # {}
    THEN CHOOSE i \in AutoReaching : \A j \in AutoReaching : i <= j
    ELSE Len(wauto.alternatives)
AutoGlyph == wauto.node.children[1]

\* C18: AutoHeightChar uses the first alternative in table order that
\* reaches the target, at the font size of the call, and rescales only the
\* last one, when none reaches it
C18_AsStated ==
    (wauto.op = "height" /\ wauto.err = "none") =>
        /\ AutoGlyph.c = wauto.alternatives[AutoChosen].sym
        /\ AutoGlyph.font = wauto.alternatives[AutoChosen].fontname
        /\ AutoGlyph.fontsize =
               IF AutoReaching # {} THEN wauto.state.fontsize
               ELSE MulFrac(wauto.state.fontsize, wauto.target, AutoSizeAt(AutoChosen))

\* the children of an Hlist that hlist_out treats in its Box branch with a
\* positive resolved height and a positive width
RuledChildren(box) ==
    {i \in 1..Len(box.children) :
        LET p == box.children[i] IN
        /\ IsBox(p) /\ ~IsList(p) /\ ~IsChar(p)
        /\ (IF IsInf(p.height) THEN box.height ELSE p.height) > 0
        /\ p.width > 0}
RECURSIVE RectCalls(_)
RectCalls(calls) ==
    IF calls = <<>> THEN 0
    ELSE (IF Head(calls).type = "rect" THEN 1 ELSE 0) + RectCalls(Tail(calls))

\* C19: hlist_out on an Hlist with a non-List Box child whose resolved
\* height and whose width are positive returns normally, having emitted a
\* filled rectangle for each such child and advanced cur_h past the children
C19_AsStated ==
    (wlast.op = "ship" /\ RuledChildren(wb) # {}) =>
        /\ wout.err = "none"
        /\ RectCalls(wout.calls1) >= Cardinality(RuledChildren(wb))
        /\ wout.cur_h > 0

\* no Hlist of the tree has a child on which hlist_out's Box branch would
\* read `baseline`
RECURSIVE NoRuledBox(_)
NoRuledBox(p) ==
    IsList(p) =>
        /\ p.kind = "Hlist" => RuledChildren(p) = {}
        /\ \A i \in 1..Len(p.children) : NoRuledBox(p.children[i])
\* some Hlist of the tree has a non-List Box child that is wider than zero
RECURSIVE HasWideBox(_)
HasWideBox(p) ==
    /\ IsList(p)
    /\ \E i \in 1..Len(p.children) :
          LET q == p.children[i] IN
          \/ HasWideBox(q)
          \/ p.kind = "Hlist" /\ IsBox(q) /\ ~IsList(q) /\ q.width > 0

\* C20: in the tree of every expression the Parser accepts, every non-List
\* Box that is a direct child of an Hlist has a resolved height or a width
\* that is not positive, and ship on the tree does not raise
C20_BaselineNeverRead ==
    (prs.op = "parse" /\ prs.parser.err.cls = "none") =>
        /\ NoRuledBox(prs.parser.expr)
        /\ ship(0, 0, prs.parser.expr).st.err = "none"
\* a fraction under a radical, shrunk in a root or script: the tree holds
\* Boxes wider than zero directly in an Hlist, all of them flat
C20_Witness ==
    /\ prs.op = "parse"
    /\ prs.parser.err.cls = "none"
    /\ HasWideBox(prs.parser.expr)
    /\ NoRuledBox(prs.parser.expr)
    /\ ship(0, 0, prs.parser.expr).st.calls # <<>>

\* the nodes of the tree under p, p included
RECURSIVE Subtrees(_)
Subtrees(p) ==
    {p} \cup (IF IsList(p)
              THEN UNION {Subtrees(p.children[i]) : i \in 1..Len(p.children)}
              ELSE {})
\* the Hlist that Parser.sqrt returns: [root_vlist, Kern, check, rightside],
\* rightside being the Vlist [Hrule, Fill, padded_body]
IsSqrt(p) ==
    /\ p.kind = "Hlist"
    /\ Len(p.children) = 4
    /\ p.children[1].kind = "Vlist"
    /\ IsKern(p.children[2])
    /\ p.children[3].kind = "Hlist"
    /\ p.children[4].kind = "Vlist"
    /\ Len(p.children[4].children) = 3
    /\ p.children[4].children[1].kind = "Rule"
    /\ IsGlue(p.children[4].children[2])
SqrtsOf(p) == {q \in Subtrees(p) : IsSqrt(q)}
\* the height and depth sqrt takes from the radical sign it chose
SqrtHeight(q) == q.children[3].height - q.children[3].shift_amount
SqrtDepth(q) == q.children[3].depth + q.children[3].shift_amount

ScriptsOf(q) == q.children[Len(q.children)]
IsBothScripts(q) ==
    /\ q.kind = "Hlist"
    /\ Len(q.children) >= 2
    /\ ScriptsOf(q).kind = "Vlist"
    /\ Len(ScriptsOf(q).children) = 3
    /\ ScriptsOf(q).children[1].kind = "Hlist"
    /\ IsKern(ScriptsOf(q).children[2])
    /\ ScriptsOf(q).children[3].kind = "Hlist"
    /\ Len(ScriptsOf(q).children[1].children) >= 1
    /\ IsChar(ScriptsOf(q).children[1].children[1])
    /\ Len(ScriptsOf(q).children[3].children) >= 1
    /\ IsChar(ScriptsOf(q).children[3].children[1])
BothScriptsOf(p) == {q \in Subtrees(p) : IsBothScripts(q)}
\* shift_down as subsuperscript leaves it in the Vlist's shift_amount, and
\* shift_up as it is in Kern((shift_up - x.depth) - (y.height - shift_down))
ShiftDown(q) == ScriptsOf(q).shift_amount
ShiftUp(q) ==
    LET v == ScriptsOf(q) IN
    v.children[2].width + v.children[1].depth + v.children[3].height - ShiftDown(q)
\* the draw calls of the two scripts when the Hlist is shipped at the origin,
\* where the baseline of the nucleus is at q.height
ScriptCalls(q) == ship(0, 0, [q EXCEPT !.children = <<ScriptsOf(q)>>]).st.calls

\* C22: for a nucleus with both scripts, ship draws the superscript with its
\* baseline shift_up above and the subscript with its baseline shift_down
\* below the baseline of the nucleus, and the bottom of the superscript box
\* is at least twice the rule thickness above the top of the subscript box
C22_ScriptsClear ==
    (prs.op = "parse" /\ prs.parser.err.cls = "none") =>
        \A q \in BothScriptsOf(prs.parser.expr) :
            With(ScriptCalls(q), LAMBDA calls :
            LET x == ScriptsOf(q).children[1]
                y == ScriptsOf(q).children[3]
                rule_thickness == get_underline_thickness(x.children[1].font, prs.fontsize, prs.dpi)
            IN  /\ Len(calls) = 2
                /\ calls[1].oy = q.height - ShiftUp(q)
                /\ calls[2].oy = q.height + ShiftDown(q)
                /\ (calls[2].oy - y.height) - (calls[1].oy + x.depth) >= 2 * rule_thickness)
\* a nucleus with both scripts, the superscript above the baseline and the
\* subscript below it, the gap wider than the scripts' natural positions give
C22_Witness ==
    /\ prs.op = "parse"
    /\ prs.parser.err.cls = "none"
    /\ \E q \in BothScriptsOf(prs.parser.expr) :
          /\ IsChar(q.children[1])
          /\ ShiftUp(q) > 0
          /\ ShiftDown(q) > 0
          /\ Len(ScriptCalls(q)) = 2
          /\ ScriptsOf(q).children[2].width >= 2 * Unit
          /\ ScriptCalls(q)[1].oy < ScriptCalls(q)[2].oy

\* the Hlist that Parser.frac returns: the Vlist [cnum, Vbox, Hrule, Vbox,
\* cden] and an Hbox
IsFrac(q) ==
    /\ q.kind = "Hlist"
    /\ Len(q.children) = 2
    /\ q.children[1].kind = "Vlist"
    /\ q.children[2].kind = "Box"
    /\ Len(q.children[1].children) = 5
    /\ q.children[1].children[1].kind = "Hlist"
    /\ q.children[1].children[2].kind = "Box"
    /\ q.children[1].children[3].kind = "Rule"
    /\ q.children[1].children[4].kind = "Box"
    /\ q.children[1].children[5].kind = "Hlist"
FracsOf(p) == {q \in Subtrees(p) : IsFrac(q)}
\* the centered numerator and denominator, and what is centered in them
Cnum(q) == q.children[1].children[1]
Cden(q) == q.children[1].children[5]
Centered(c) == c.children[2]

C24_AsStated == mtp.self.parser.em_width_cache = {}

\* a draw call moved by (dx, dy)
Translated(call, dx, dy) ==
    IF call.type = "glyph"
    THEN [call EXCEPT !.ox = @ + dx, !.oy = @ + dy]
    ELSE [call EXCEPT !.x1 = @ + dx, !.y1 = @ + dy, !.x2 = @ + dx, !.y2 = @ + dy]
\* vlist_out has written the Vlist's width into a child list that is narrower
Widened(p) ==
    \E v \in Subtrees(p) :
        /\ v.kind = "Vlist"
        /\ \E i \in 1..Len(v.children) :
              /\ v.children[i].kind = "Hlist"
              /\ v.children[i].glue_sign = 0
              /\ v.children[i].width = v.width
              /\ NaturalWidth(v.children[i]) < v.width

\* C25: the two ship passes of get_results emit the same calls in the same
\* order, every call of the second pass being the first pass's call moved by
\* the second origin (the first being 0, 0)
C25_SecondPassTranslated ==
    (wlast.op = "get_results" /\ wout.err = "none") =>
        /\ Len(wout.calls2) = Len(wout.calls1)
        /\ \A i \in 1..Len(wout.calls1) :
              wout.calls2[i] = Translated(wout.calls1[i], -wout.bbox.x1, -wout.bbox.y1)
\* a Vlist with a child list narrower than itself went through both passes,
\* which drew its glyphs in two places
C25_Witness ==
    /\ wlast.op = "get_results"
    /\ wout.err = "none"
    /\ Widened(wb)
    /\ wout.bbox.x1 < 0
    /\ wout.bbox.y1 < 0
    /\ Len(wout.calls2) >= 2
    /\ wout.calls2[1].type = "glyph"
    /\ wout.calls2[1] # wout.calls1[1]

\* C26: after every parse that returned, the state stack holds the one
\* frame that parse created
C26_AsStated ==
    (prs.op = "parse" /\ ~Failed(prs.parser)) =>
        Len(prs.parser.state_stack) = 1

\* two glue settings agree up to rounding
NearRatio(a, b) ==
    Abs(a.n * b.d - b.n * a.d) <= Rounding * Abs(a.d) * Abs(b.d)
\* the Hlist is as hpack(list.width, 'exactly') would leave it: its height
\* and depth are those of its children, and its width is their natural width
\* when no glue is set, or the glue setting is the one the surplus gives
Packed(p) ==
    With(hpack(p, p.width, "exactly"), LAMBDA r :
        /\ Near(r.height, p.height)
        /\ Near(r.depth, p.depth)
        /\ IF p.glue_sign = 0 THEN Near(p.width, NaturalWidth(p))
           ELSE /\ r.glue_sign = p.glue_sign
                /\ r.glue_order = p.glue_order
                /\ NearRatio(r.glue_set, p.glue_set))
\* the node as it was before the last shrink
Unshrunk == wsize.snaps[Len(wsize.snaps)]

\* C27 as stated: shrink() keeps every packed Hlist packed, whatever the
\* size levels of its descendants
C27_AsStated ==
    (/\ wsize.op = "shrink"
     /\ wsize.node.kind = "Hlist"
     /\ Packed(Unshrunk)) => Packed(wsize.node)

\* the Vlists of the shipped tree that carry no glue setting and have the
\* height and depth that vpack computes from their children alone
PlainVlistsOf(p) ==
    {q \in Subtrees(p) :
        /\ q.kind = "Vlist"
        /\ q.glue_sign = 0
        /\ With(vpack(q, 0, "additional", Inf), LAMBDA r :
               r.err = "none" /\ r.box.height = q.height /\ r.box.depth = q.depth)}
\* what vlist_out adds to cur_v over the children of the Vlist: it starts
\* the loop at cur_v - box.height
Advance(q) ==
    With(vlist_out(q, ShipStart, [h |-> 0, v |-> 0]), LAMBDA r :
        IF r.st.err # "none" THEN -1 ELSE r.st.cur_v + q.height)
ShipsClean(q) == vlist_out(q, ShipStart, [h |-> 0, v |-> 0]).st.err = "none"
\* C28 as stated: over the children of a Vlist without glue setting,
\* vlist_out advances cur_v by the height + depth that vpack computed
C28_AsStated ==
    (wlast.op = "ship" /\ wout.err = "none") =>
        \A q \in PlainVlistsOf(wb) : ShipsClean(q) => Advance(q) = q.height + q.depth

\* the mathtext.fontset under which the first call that returned for the
\* key built its Fonts object and laid its result out
LaidOutUnder(history, key) == {e.fontset : e \in {h \in history : h.key = key}}
\* C29 as stated: a result that a call of parse returns from the cache was
\* laid out with the font family selected at the time of the call
C29_AsStated ==
    [][(/\ mtp'.fontset = mtp.fontset
        /\ mtp'.last.op = "parse"
        /\ mtp'.last.out.returned
        /\ mtp'.last.out.hit) =>
            LaidOutUnder(mtp'.history, mtp'.last.key) = {mtp.fontset}]_vars

\* the image of the Agg backend for the canvas that get_results asked for
Image == Agg_set_canvas_size(wout.canvas.w, wout.canvas.h, wout.canvas.d)
\* the rectangle lies inside the image
InsideImage(r) ==
    /\ 0 <= r.x1 /\ r.x2 <= Image.width
    /\ 0 <= r.y1 /\ r.y2 <= Image.height
\* C30 as stated: the image that get_results allocates is at least as wide
\* and as tall as the expanded bounding box, and every ink box and rectangle
\* drawn in the second ship pass lies inside it
C30_AsStated ==
    (wlast.op = "get_results" /\ wout.err = "none") =>
        /\ Image.width >= wout.bbox.x2 - wout.bbox.x1
        /\ Image.height >= wout.bbox.y2 - wout.bbox.y1
        /\ \A i \in 1..Len(wout.calls2) : InsideImage(call_box(wout.calls2[i]))

\* a backend and the font layer reference each other
Cyclic(l) ==
    \/ l.mathtext_backend = "bbox" /\ l.bbox_fonts_object
    \/ l.mathtext_backend = "real" /\ l.real_fonts_object

\* C11: after every parse call that is not answered from _cache, whether it
\* returns or raises, the font layer the call created references no backend,
\* and so no backend and the font layer reference each other
C11_AsStated ==
    (mtp.last.op = "parse" /\ ~mtp.last.out.hit /\ mtp.last.out.made_fonts)
        => (/\ mtp.last.out.links.mathtext_backend = "None"
            /\ ~Cyclic(mtp.last.out.links))

====
